---- MODULE Spec2Model ----
(***************************************************************************)
(* A model of aws-stream-consumer-core: one batch of stream records is      *)
(* delivered to processStreamEvent again and again until it is              *)
(* acknowledged.  Every invocation runs initiate -> process -> finalise,    *)
(* racing the process and the finalise phase against a timeout, and saves   *)
(* the batch's task states in a checkpoint table between invocations.       *)
(*                                                                         *)
(* The batch holds two messages, m1 and m2, and one unusable record u1.      *)
(* With one key m1 is sequenced before m2; where a single delivery is       *)
(* looked at their keys may differ, and the event may hold no record.  One  *)
(* "process one" task and one "process all" task are defined.  The task     *)
(* engine (task-utils) and the promise helpers (core-functions) are         *)
(* libraries outside src/: their operators below follow the                 *)
(* specification's description of them.  The extraction and sequencing of   *)
(* the messages, the comparator of the sequence numbers and the timeout of  *)
(* the finalise phase are looked at in specifications of their own.         *)
(***************************************************************************)
EXTENDS Integers, FiniteSets, Sequences, TLC

\* maxNumberOfAttempts of the stream processing settings, kept small.
MaxAttempts == 2

\* Deliveries of the same records the host makes at most.
MaxInvocations == 2

Msgs == {"m1", "m2"}
Unusables == {"u1"}
Items == Msgs \cup Unusables
NoMsg == "none"

\* The records of the event, in the order of the event.
Records == <<"r1", "r2", "r3">>

\* event.Records: the records above, or none at all.
VARIABLE eventRecords

\* batch.firstMessagesToProcess as sequenceMessages leaves it for the records
\* of the batch: m1 alone when m1 and m2 share their key, both messages when
\* their keys differ.
VARIABLE firstMessagesToProcess

\* sequenceMessages: m1 is first; with one key m2 is its next.
firstMessageToProcess == "m1"

nextMessage(m) ==
  IF m = "m1" /\ firstMessagesToProcess = {"m1"} THEN "m2" ELSE NoMsg

\* A retrying host redelivers without end: its deliveries are counted up to
\* this number.
RetryInvocations == 2 * MaxAttempts + 2

---------------------------------------------------------------------------
\* The task engine.

NoTask == [st |-> "none", att |-> 0, frz |-> FALSE]

NewTask == [st |-> "unstarted", att |-> 0, frz |-> FALSE]

FinalisedStates == {"completed", "rejected", "discarded", "abandoned"}

RejectedStates == {"rejected", "discarded", "abandoned"}

finalised(t) == t.st \in FinalisedStates

\* A task list without the task has nothing left to finalise.
isFullyFinalised(t) == t.st = "none" \/ finalised(t)

immutable(t) == t.st = "none" \/ t.frz \/ finalised(t)

incrementAttempts(t) == IF immutable(t) THEN t ELSE [t EXCEPT !.att = @ + 1]

start(t) == IF immutable(t) THEN t ELSE [t EXCEPT !.st = "started"]

\* The execute wrapper of a task: count the attempt, then start.
execute(t) == start(incrementAttempts(t))

\* complete with overrideTimedOut false.
complete(t) ==
  IF immutable(t) \/ t.st = "timedOut" THEN t ELSE [t EXCEPT !.st = "completed"]

fail(t) ==
  IF immutable(t) \/ t.st = "timedOut" THEN t ELSE [t EXCEPT !.st = "failed"]

reject(t) == IF immutable(t) THEN t ELSE [t EXCEPT !.st = "rejected"]

\* A callback that ends in a FinalisedError fails its task with that error.
settle(t, o) ==
  CASE o = "ok" -> complete(t)
    [] o = "fail" -> fail(t)
    [] o = "reject" -> reject(t)
    [] o = "finalisedError" -> fail(t)

revertAttempts(t) == [t EXCEPT !.att = IF @ > 0 THEN @ - 1 ELSE 0]

timeout(t, opts) ==
  IF \/ t.st = "none" \/ t.frz \/ t.st = "timedOut"
     \/ t.st \in RejectedStates
     \/ (t.st = "completed" /\ ~opts.overrideCompleted)
     \/ (t.st = "unstarted" /\ ~opts.overrideUnstarted)
  THEN t
  ELSE [t EXCEPT !.st = "timedOut",
                 !.att = IF opts.reverseAttempt /\ @ > 0 THEN @ - 1 ELSE @]

discardIfOverAttempted(t, max) ==
  IF immutable(t) \/ t.att < max THEN t ELSE [t EXCEPT !.st = "discarded"]

freeze(t) == IF t.st = "none" THEN t ELSE [t EXCEPT !.frz = TRUE]

\* A task-like as it is written to the checkpoint.
toTaskLike(t) == [t EXCEPT !.frz = FALSE]

\* A new task updated from its prior version: a finalised state is kept, an
\* incomplete one is reset to unstarted, the attempts are kept.
revive(prev, createIfMissing) ==
  IF prev.st = "none"
  THEN (IF createIfMissing THEN NewTask ELSE NoTask)
  ELSE [st |-> IF finalised(prev) THEN prev.st ELSE "unstarted",
        att |-> prev.att, frz |-> FALSE]

---------------------------------------------------------------------------
\* The checkpoint item of the batch.

NoItem == [exists |-> FALSE, rej |-> {},
           ones |-> [m \in Msgs |-> NoTask],
           alls |-> [m \in Msgs |-> NoTask],
           discards |-> [i \in Items |-> NoTask]]

NoError == "none"

Savers == {"A", "B"}

IdleSavers ==
  [s \in Savers |-> [pc |-> "idle", item |-> NoItem, inserted |-> FALSE,
                   writes |-> 0]]

VARIABLES env, inv, table, published, everFailed,
          pc, result, messages, rejectedMessages, ones, alls, master, discards,
          undiscardedRejectedMessages, running, invoked, incompleteMessages,
          chainAt, cancelled, previouslySaved, prior, saveIssued, finaliseFailure,
          timedOutPhases, pendingItem, savers,
          config, keyValid, processOutcomes, finaliseError, error,
          disableAttempts, disableOutcome, loadBatchStateTask,
          saveBatchStateTask, writes, lateSettled, race,
          step, streamProcessing, pending, batch, fatalItems,
          comparison, timing, loadedItem, esmCache, taskDefs

perInvocation == <<pc, result, messages, rejectedMessages, ones, alls, master,
                   discards, undiscardedRejectedMessages, running, invoked,
                   incompleteMessages, chainAt, cancelled, previouslySaved, prior,
                   saveIssued, finaliseFailure, timedOutPhases, pendingItem,
                   processOutcomes, finaliseError, error, disableAttempts,
                   disableOutcome, loadBatchStateTask, saveBatchStateTask, writes,
                   lateSettled, race>>

\* What the invocation records of its failures and of its checkpoint I/O.
faultVars == <<processOutcomes, finaliseError, error, disableAttempts,
               disableOutcome, loadBatchStateTask, saveBatchStateTask, writes,
               lateSettled>>

\* The initiate phase looked at in detail: the records still to be extracted,
\* the lists and the tracked states of the batch, and the items whose addition
\* ended in a FatalError.
aux == <<step, streamProcessing, pending, batch, fatalItems,
        firstMessagesToProcess, comparison, timing, eventRecords,
        loadedItem, esmCache, taskDefs>>

vars == <<env, config, keyValid, inv, table, published, everFailed,
          perInvocation, savers, aux>>

\* The phases that race their completion against a timeout.
Phases == {"process", "finalise"}

\* No phase task, no timeout and no hook run yet.
NoRace ==
  [p \in Phases |-> [task |-> NoTask, timeout |-> "none", hook |-> "none"]]

\* The fields of a new Batch, before its initiate phase.
blankBatch ==
  /\ result = "none"
  /\ messages = {}
  /\ rejectedMessages = {}
  /\ ones = [m \in Msgs |-> NoTask]
  /\ alls = [m \in Msgs |-> NoTask]
  /\ master = NoTask
  /\ discards = [i \in Items |-> NoTask]
  /\ undiscardedRejectedMessages = {}
  /\ running = {}
  /\ invoked = {}
  /\ incompleteMessages = {}
  /\ chainAt = NoMsg
  /\ cancelled = FALSE
  /\ previouslySaved = FALSE
  /\ prior = NoItem
  /\ saveIssued = FALSE
  /\ finaliseFailure = FALSE
  /\ timedOutPhases = {}
  /\ pendingItem = NoItem
  /\ processOutcomes = {}
  /\ finaliseError = NoError
  /\ error = NoError
  /\ disableAttempts = 0
  /\ disableOutcome = "none"
  /\ loadBatchStateTask = NoTask
  /\ saveBatchStateTask = NoTask
  /\ writes = 0
  /\ lateSettled = {}
  /\ race = NoRace

\* A batch without a record, message or tracked state.  sameArray tells that
\* firstMessagesToProcess is the array of the messages itself.
emptyBatch ==
  [messages |-> <<>>, rejectedMessages |-> <<>>, unusableRecords |-> <<>>,
   states |-> <<>>, firstMessagesToProcess |-> <<>>, sameArray |-> FALSE]

\* No sequence numbers to compare.
NoComparison == [seqNos |-> <<>>, results |-> <<>>]

\* No timeout to calculate.
NoTiming == [remainingTimeInMillis |-> 0, elapsed |-> 0,
             timeoutAtPercentageOfRemainingTime |-> 0, timeoutMs |-> 0,
             calculated |-> FALSE]

\* No prior state of the batch to restore.
NoPriorItem == [messageStates |-> <<>>, rejectedMessageStates |-> <<>>]

\* The function and stream pairs whose event source mapping is looked up.
FunctionsAndStreams == {"fn|s1", "fn|s2"}

\* The attempts to disable an event source mapping that one process makes:
\* handleFatalError makes one in an invocation.
MaxDisables == MaxInvocations

\* No event source mapping looked up yet, none cached: the two maps of the
\* module are empty.  promises holds the promise of every attempt made,
\* calls the attempts since the cache was last cleared, cleared what the last
\* clearCache found and returned.
EmptyCache ==
  [eventSourceMappingKeysByFunctionAndStream |-> {},
   eventSourceMappingPromisesByKey |-> [fs \in FunctionsAndStreams |-> 0],
   promises |-> <<>>,
   lookups |-> 0,
   calls |-> <<>>,
   cleared |-> [calls |-> <<>>, deletedCount |-> 0]]

\* No task definitions handed to processStreamEvent yet.
NoTaskDefs ==
  [processOneTaskDefs |-> [defined |-> FALSE, defs |-> <<>>],
   processAllTaskDefs |-> [defined |-> FALSE, defs |-> <<>>],
   validated |-> "no"]

\* Where the restore, the event source mapping cache and the validation of
\* the task definitions are not looked at on their own.
idleInputs == loadedItem = NoPriorItem /\ esmCache = EmptyCache /\ taskDefs = NoTaskDefs

\* Where the comparator and the timeouts are not looked at on their own.
idleFunctions == comparison = NoComparison /\ timing = NoTiming /\ idleInputs

\* Where the initiate phase is not looked at in detail.
idleAux ==
  /\ step = "idle"
  /\ streamProcessing = [sequencingRequired |-> TRUE, sequencingPerKey |-> TRUE]
  /\ pending = <<>>
  /\ batch = emptyBatch
  /\ fatalItems = {}
  /\ idleFunctions

newBatch == pc = "start" /\ blankBatch

InitEnv(e) ==
  /\ env = e
  /\ idleAux
  /\ firstMessagesToProcess = {firstMessageToProcess}
  /\ eventRecords = Records
  /\ config = "ok"
  /\ keyValid = TRUE
  /\ inv = 1
  /\ table = NoItem
  /\ published = {}
  /\ everFailed = {}
  /\ savers = IdleSavers
  /\ newBatch

Init == InitEnv("any")

---------------------------------------------------------------------------
\* What the user's callbacks and the I/O of an environment may answer.

OneOutcomes == {"ok", "fail", "reject"}

AllOutcomes == {"ok", "fail"}

IOOutcomes == IF env \in {"any", "faults"} THEN {"ok", "fail"} ELSE {"ok"}

\* A callback that trips over the task engine ends in a FinalisedError.
FaultOutcomes == {"finalisedError"}

\* A checkpoint request may also find its table missing or fail with a
\* retryable error of the SDK.
CheckpointOutcomes == {"ok", "fail", "missingTable", "retryable"}

\* What disableSourceStreamEventSourceMapping may answer.
DisableOutcomes == {"true", "false", "rejects"}

Configs == {"ok", "invalidTaskDefs", "noDiscardFunction", "noLoadFunction",
            "noSaveFunction"}

one(m) == <<"one", m>>

disc(i) == <<"disc", i>>

allTask == <<"all", "batch">>

saveTask == <<"save", "batch">>

---------------------------------------------------------------------------
\* Errors.

FatalErrors == {"Fatal:Configuration", "Fatal:MissingTable", "Fatal:FinalisedError",
                "Fatal:Extraction"}

\* isInstanceOf(err, FatalError)
isFatal(err) == err \in FatalErrors

\* The Failure a settled process callback leaves among the process outcomes.
outcomeFailure(o) ==
  CASE o = "fail" -> {"ProcessError"}
    [] o = "finalisedError" -> {"FinalisedError"}
    [] OTHER -> {}

\* A checkpoint codec that raises every failure as the request's own error.
checkpointError_unclassified(o, raw) == IF o = "ok" THEN NoError ELSE raw

\* saveBatchStateToDynamoDB and loadBatchStateFromDynamoDB: the error raised
\* for a failed request, raw being the request's own error.
checkpointError(o, raw) ==
  CASE o = "ok" -> NoError
    [] o = "missingTable" -> "Fatal:MissingTable"
    [] o = "retryable" -> "TransientError"
    [] OTHER -> raw

\* The task that wraps the load or the save function, after the request: a
\* retryable error reverts the attempt.
checkpointTask(o) ==
  LET t == execute(NewTask) IN
    CASE o = "ok" -> complete(t)
      [] o = "retryable" -> fail(revertAttempts(t))
      [] OTHER -> fail(t)

\* A save that does not look at the batch key.
hasCompleteKey_unchecked(valid) == TRUE

\* Neither streamConsumerId nor shardOrEventID is blank.
hasCompleteKey(valid) == valid

---------------------------------------------------------------------------
\* The initiate phase.

\* restoreMessageAndRejectedMessageStates: a message with a prior rejected
\* message state is moved to the rejected messages.
movedToRejected(prev) == IF prev.exists THEN {m \in Msgs : m \in prev.rej} ELSE {}

\* A restore that leaves out the prior process one tasks.
prevOnes_forgotten(prev) == [m \in Msgs |-> NoTask]

\* setMessageStateToPrev: the prior ones, alls and discards replace the state's.
prevOnes(prev) == prev.ones

prevAlls(prev) == prev.alls

\* A restore that leaves out the prior discard tasks.
prevDiscards_forgotten(prev) == [i \in Items |-> NoTask]

\* restoreUnusableRecordStates and setMessageStateToPrev: the prior discards.
prevDiscards(prev) == prev.discards

\* reviveTasks: tasks of messages are created for every definition, tasks of
\* rejected messages and discard tasks of messages only where a prior one
\* exists, discard tasks of unusable records always.
reviveOnes(prev, rej) == [m \in Msgs |-> revive(prevOnes(prev)[m], m \notin rej)]

reviveAlls(prev, rej) == [m \in Msgs |-> revive(prevAlls(prev)[m], m \notin rej)]

reviveDiscards(prev) ==
  [i \in Items |-> revive(prevDiscards(prev)[i], i \in Unusables)]

\* validateTaskDefinitions and the Batch constructor's defineDiscardTasks
\* throw a FatalError before the phases begin.
invalidConfiguration == config \in {"invalidTaskDefs", "noDiscardFunction"}

\* processStreamEvent rejects with that error as it was thrown.
rejectInvalidConfiguration ==
  /\ pc = "start"
  /\ invalidConfiguration
  /\ error' = "Fatal:Configuration"
  /\ result' = "rejected"
  /\ pc' = "done"
  /\ UNCHANGED <<processOutcomes, finaliseError, disableAttempts, disableOutcome,
                 loadBatchStateTask, saveBatchStateTask, writes>>
  /\ UNCHANGED lateSettled
  /\ UNCHANGED <<aux, race, env, config, keyValid, inv, table, published, everFailed, savers,
                 messages, rejectedMessages, ones, alls, master, discards,
                 undiscardedRejectedMessages, running, invoked, incompleteMessages,
                 chainAt, cancelled, previouslySaved, prior, saveIssued,
                 finaliseFailure, timedOutPhases, pendingItem>>

\* An event without a record to process.
uselessEvent_processed(records) == FALSE

\* processStreamEvent: an event with no Records is useless.
uselessEvent(records) == Len(records) <= 0

\* processStreamEvent consumes a useless event instead of throwing an error
\* that would replay it: it resolves with a new batch of no records, which
\* goes through no phase.
consumeUselessEvent ==
  /\ pc = "start"
  /\ ~invalidConfiguration
  /\ uselessEvent(eventRecords)
  /\ result' = "resolved"
  /\ pc' = "done"
  /\ UNCHANGED faultVars
  /\ UNCHANGED <<aux, race, env, config, keyValid, inv, table, published, everFailed, savers,
                 messages, rejectedMessages, ones, alls, master, discards,
                 undiscardedRejectedMessages, running, invoked, incompleteMessages,
                 chainAt, cancelled, previouslySaved, prior, saveIssued,
                 finaliseFailure, timedOutPhases, pendingItem>>

\* loadBatchState: nothing is loaded for a batch without a complete key.
loadRequired == hasCompleteKey(keyValid)

\* initiateBatch with a successful load: extract and sequence the messages,
\* load and restore the prior state, revive the tasks.
initiateBatch ==
  /\ pc = "start"
  /\ ~invalidConfiguration
  /\ ~uselessEvent(eventRecords)
  /\ loadRequired => config # "noLoadFunction"
  /\ LET loaded == IF loadRequired THEN table ELSE NoItem
         rej == movedToRejected(loaded)
     IN
       /\ previouslySaved' = loaded.exists
       /\ prior' = loaded
       /\ rejectedMessages' = rej
       /\ messages' = Msgs \ rej
       /\ ones' = reviveOnes(loaded, rej)
       /\ alls' = reviveAlls(loaded, rej)
       /\ discards' = reviveDiscards(loaded)
       /\ master' = IF Msgs \ rej # {} THEN NewTask ELSE NoTask
  /\ loadBatchStateTask' = IF loadRequired THEN checkpointTask("ok") ELSE NoTask
  /\ pc' = "initiated"
  /\ UNCHANGED <<processOutcomes, finaliseError, error, disableAttempts,
                 disableOutcome, saveBatchStateTask, writes>>
  /\ UNCHANGED lateSettled
  /\ UNCHANGED <<aux, race, env, config, keyValid, inv, table, published, everFailed, savers, result,
                 undiscardedRejectedMessages, running, invoked, incompleteMessages,
                 chainAt, cancelled, saveIssued, finaliseFailure, timedOutPhases,
                 pendingItem>>

\* An initiate phase whose failure lets the invocation go on to process.
initiateRejected_ignored(err) == "initiated"

\* processStreamEvent when executeInitiateBatchTask rejects: the process and
\* the finalise phase are skipped and the catch handles the error.
initiateRejected(err) == IF isFatal(err) THEN "fatal" ELSE "done"

\* initiateBatch when loadBatchState fails: the invocation rejects with the
\* error of the load, by way of handleFatalError when that is a FatalError.
loadBatchStateFails(o) ==
  /\ pc = "start"
  /\ ~invalidConfiguration
  /\ ~uselessEvent(eventRecords)
  /\ loadRequired
  /\ o # "ok"
  /\ LET err == IF config = "noLoadFunction" THEN "Fatal:Configuration"
                ELSE checkpointError(o, "LoadError")
     IN
       /\ error' = err
       /\ pc' = initiateRejected(err)
       /\ result' = IF isFatal(err) THEN result ELSE "rejected"
  /\ loadBatchStateTask' = IF config = "noLoadFunction" THEN NoTask
                           ELSE checkpointTask(o)
  /\ UNCHANGED <<processOutcomes, finaliseError, disableAttempts, disableOutcome,
                 saveBatchStateTask, writes>>
  /\ UNCHANGED lateSettled
  /\ UNCHANGED <<aux, race, env, config, keyValid, inv, table, published, everFailed, savers,
                 messages, rejectedMessages, ones, alls, master, discards,
                 undiscardedRejectedMessages, running, invoked, incompleteMessages,
                 chainAt, cancelled, previouslySaved, prior, saveIssued,
                 finaliseFailure, timedOutPhases, pendingItem>>

\* The steps of the initiate phase, other than the load, that may fail.
InitiateFailures == {"extract", "revive", "preProcess"}

\* The error of a failed step: a FatalError of the extraction, whatever
\* batch.reviveTasks or the preProcessBatch function throws.
initiateError(cause) ==
  CASE cause = "extract" -> "Fatal:Extraction"
    [] cause = "revive" -> "ReviveError"
    [] cause = "preProcess" -> "PreProcessError"

\* initiateBatch when the extraction ends in a FatalError, or when, after a
\* successful load, the revival of the tasks or the preProcessBatch function
\* fails: the invocation rejects with that error.
initiateStepFails(cause) ==
  /\ pc = "start"
  /\ ~invalidConfiguration
  /\ ~uselessEvent(eventRecords)
  /\ cause # "extract" => (loadRequired => config # "noLoadFunction")
  /\ LET loads == cause # "extract" /\ loadRequired
         loaded == IF loads THEN table ELSE NoItem
         rej == movedToRejected(loaded)
         revived == cause = "preProcess"
         err == initiateError(cause)
     IN
       /\ previouslySaved' = loaded.exists
       /\ prior' = loaded
       /\ rejectedMessages' = rej
       /\ messages' = Msgs \ rej
       /\ ones' = IF revived THEN reviveOnes(loaded, rej) ELSE ones
       /\ alls' = IF revived THEN reviveAlls(loaded, rej) ELSE alls
       /\ discards' = IF revived THEN reviveDiscards(loaded) ELSE discards
       /\ master' = IF revived /\ Msgs \ rej # {} THEN NewTask ELSE master
       /\ loadBatchStateTask' = IF loads THEN checkpointTask("ok") ELSE NoTask
       /\ error' = err
       /\ pc' = initiateRejected(err)
       /\ result' = IF isFatal(err) THEN result ELSE "rejected"
  /\ UNCHANGED <<processOutcomes, finaliseError, disableAttempts, disableOutcome,
                 saveBatchStateTask, writes>>
  /\ UNCHANGED lateSettled
  /\ UNCHANGED <<aux, race, env, config, keyValid, inv, table, published, everFailed, savers,
                 undiscardedRejectedMessages, running, invoked, incompleteMessages,
                 chainAt, cancelled, saveIssued, finaliseFailure, timedOutPhases,
                 pendingItem>>

initiateBatchFails ==
  /\ env = "any"
  /\ loadBatchStateFails("fail")

---------------------------------------------------------------------------
\* The process phase.

\* executeProcessOneTasks: the first message from m on along the chain that
\* has an incomplete process one task; a message without one is passed over.
RECURSIVE chainTarget(_, _)
chainTarget(m, os) ==
  IF m = NoMsg THEN NoMsg
  ELSE IF ~isFullyFinalised(os[m]) THEN m
  ELSE chainTarget(nextMessage(m), os)

\* A chain that goes on to the next message whatever became of the current one.
allTasksFullyFinalised_skipped(t) == TRUE

\* executeProcessOneTasks: the next message is started only if every task
\* executed on the current message is fully finalised.
allTasksFullyFinalised(t) == isFullyFinalised(t)

\* Timeout options that time out a completed task as well.
timeoutOpts_overridingCompleted ==
  [overrideCompleted |-> TRUE, overrideUnstarted |-> FALSE,
   reverseAttempt |-> TRUE]

\* Timeout options that let the timed out attempt count.
timeoutOpts_countingAttempt ==
  [overrideCompleted |-> FALSE, overrideUnstarted |-> FALSE,
   reverseAttempt |-> FALSE]

\* timeoutProcessingTasks and timeoutFinalisingTasks time out with these.
timeoutOpts == [overrideCompleted |-> FALSE, overrideUnstarted |-> FALSE,
                reverseAttempt |-> TRUE]

\* A revival that leaves the batch's process all task without its slaves.
slaveTasks_unlinked(mst, as) == {}

\* reviveTasks: the process all tasks revived on the messages and on the
\* rejected messages are set as the slave tasks of the batch's process all
\* task, which exists only with messages in the batch.
slaveTasks(mst, as) ==
  IF mst.st = "none" THEN {} ELSE {m \in Msgs : as[m].st # "none"}

\* A transition of the master task replayed onto each of its slave tasks.
mirrored(mst, as, replayed) ==
  [m \in Msgs |-> IF m \in slaveTasks(mst, as) THEN replayed[m] ELSE as[m]]

\* A process phase that starts on every message at once.
independentMessages_every == Msgs

\* executeAllProcessOneTasks: the messages whose chains are started side by
\* side are the first messages to process.
independentMessages == firstMessagesToProcess

\* A phase that is done with the first failure of any of its promises.
every_failFast(promises, outcomes) == promises = {} \/ outcomes # {}

\* Promises.every of processBatch: the processed promise completes when each
\* of the promises it waits for has settled, whatever their outcomes.
every(promises, outcomes) == promises = {}


\* The phase task is executed and its timeout is set.
startRace ==
  [task |-> execute(NewTask), timeout |-> "pending", hook |-> "none"]

\* cancelTimeout: tells whether the timeout had triggered already.
cancelTimeout(r) == r.timeout = "triggered"

\* A completion that marks the phase task whatever the timeout did.
createCompletedPromise_overriding(r, failure) ==
  [task |-> [r.task EXCEPT !.st = IF failure THEN "failed" ELSE "completed"],
   timeout |-> r.timeout, hook |-> r.hook]

\* createCompletedPromise: the completing promise has settled.  Unless the
\* timeout had triggered, the timeout is cancelled and the phase task fails
\* on a Failure among the outcomes and completes otherwise.
createCompletedPromise(r, failure) ==
  IF cancelTimeout(r) THEN r
  ELSE [task |-> IF failure THEN fail(r.task) ELSE complete(r.task),
        timeout |-> "cancelled", hook |-> r.hook]

\* createTimeoutPromise: the timeout triggers and times out the phase task.
createTimeoutPromise(r) ==
  [task |-> timeout(r.task, timeoutOpts), timeout |-> "triggered",
   hook |-> r.hook]

\* How the hook of a phase can settle.  A hook that is not configured
\* resolves at once; only a faulty environment has hooks that reject.
HookOutcomes(e) ==
  IF e = "faults" THEN {"resolved", "rejected"} ELSE {"resolved"}

\* preFinaliseBatch: the error of a pre-finalise hook that failed.
preFinaliseBatch(h) == IF h = "rejected" THEN "PreFinaliseError" ELSE NoError

\* postFinaliseBatch: the error of a post-finalise hook that failed.
postFinaliseBatch(h) == IF h = "rejected" THEN "PostFinaliseError" ELSE NoError

\* The hook task of a phase has been executed and has settled.
hookDone(r, h) == [r EXCEPT !.hook = h]

\* processBatch after its race: the outcomes of the race go on to the
\* finalise phase whether the pre-finalise hook resolved or rejected.
afterPreFinalise(outcomes, hookError) == outcomes

\* A finalise phase that ends with the error of its hook.
afterPostFinalise_hookErrorWins(err, hookError) ==
  IF hookError # NoError THEN hookError ELSE err

\* finaliseBatch after its race: the batch or the finalise error, whether
\* the post-finalise hook resolved or rejected.
afterPostFinalise(err, hookError) == err

\* The callbacks of the process phase among what is in flight.
processing(rs) ==
  rs \cap ({one(m) : m \in Msgs} \cup {allTask} \cup {disc(u) : u \in Unusables})

\* The completing promise of the process phase settles when the last of its
\* callbacks does, also after the race has been decided.
lateCompletion(rs, failure) ==
  IF pc # "process" /\ processing(rs) = {}
  THEN [race EXCEPT !.process = createCompletedPromise(@, failure)]
  ELSE race

\* processBatch: start the chains of process one tasks, the process all task
\* and the discards of the unusable records.  chainAt follows the chain of
\* the first message; a second chain holds one message.
processBatch ==
  /\ pc = "initiated"
  /\ LET target == IF messages = {} THEN NoMsg
                   ELSE chainTarget(firstMessageToProcess, ones)
         targets == IF messages = {} THEN {}
                    ELSE {chainTarget(m, ones) : m \in independentMessages} \ {NoMsg}
         doAll == messages # {} /\ ~isFullyFinalised(master)
         toDiscard == {u \in Unusables : ~isFullyFinalised(discards[u])}
     IN
       /\ chainAt' = target
       /\ ones' = [m \in Msgs |-> IF m \in targets THEN execute(ones[m]) ELSE ones[m]]
       /\ master' = IF doAll THEN execute(master) ELSE master
       /\ alls' = IF doAll THEN mirrored(master, alls, [m \in Msgs |-> execute(alls[m])]) ELSE alls
       /\ incompleteMessages' =
            IF doAll THEN {m \in messages : ~isFullyFinalised(alls[m])} ELSE {}
       /\ discards' = [i \in Items |->
                         IF i \in toDiscard THEN execute(discards[i]) ELSE discards[i]]
       /\ running' = {one(m) : m \in targets}
                       \cup (IF doAll THEN {allTask} ELSE {})
                       \cup {disc(u) : u \in toDiscard}
       /\ invoked' = running'
  /\ pc' = "process"
  /\ UNCHANGED faultVars
  /\ race' = [race EXCEPT !.process = startRace]
  /\ UNCHANGED <<aux, env, config, keyValid, inv, table, published, everFailed, savers, result, messages,
                 rejectedMessages, undiscardedRejectedMessages, cancelled,
                 previouslySaved, prior, saveIssued, finaliseFailure, timedOutPhases,
                 pendingItem>>

\* A chain that takes no notice of the cancellation of the process flow.
isCancelled_ignored(c) == FALSE

\* executeProcessOneTasks: the cancel function installed on the cancellable of
\* the process flow marks the chain as cancelled, and a cancelled chain does
\* not go on to its next message.
isCancelled(c) == c

\* A process one callback settles; its chain goes on to the next message.
processOneDone(m, o) ==
  /\ pc # "done"
  /\ one(m) \in running
  /\ LET t2 == settle(ones[m], o)
         advance == /\ ~isCancelled(cancelled) /\ chainAt = m
                    /\ allTasksFullyFinalised(t2)
         target == IF advance THEN chainTarget(nextMessage(m), ones) ELSE NoMsg
     IN
       /\ ones' = [x \in Msgs |-> IF x = m THEN t2
                                  ELSE IF x = target THEN execute(ones[x])
                                  ELSE ones[x]]
       /\ chainAt' = IF chainAt = m THEN target ELSE chainAt
       /\ running' = (running \ {one(m)}) \cup {one(x) : x \in {target} \ {NoMsg}}
       /\ invoked' = invoked \cup {one(x) : x \in {target} \ {NoMsg}}
       /\ everFailed' = IF t2.st = "failed" THEN everFailed \cup {one(m)} ELSE everFailed
  /\ processOutcomes' = IF pc = "process"
                       THEN processOutcomes \cup outcomeFailure(o)
                       ELSE processOutcomes
  /\ UNCHANGED <<finaliseError, error, disableAttempts, disableOutcome,
                 loadBatchStateTask, saveBatchStateTask, writes>>
  /\ lateSettled' = IF ones[m].frz THEN lateSettled \cup {one(m)} ELSE lateSettled
  /\ race' = lateCompletion(running', outcomeFailure(o) # {})
  /\ UNCHANGED <<aux, env, config, keyValid, inv, table, published, savers, pc, result, messages,
                 rejectedMessages, alls, master, discards,
                 undiscardedRejectedMessages, incompleteMessages, cancelled,
                 previouslySaved, prior, saveIssued, finaliseFailure, timedOutPhases,
                 pendingItem>>

\* The process all callback settles: the master task mirrors onto its slaves.
processAllDone(o) ==
  /\ pc # "done"
  /\ allTask \in running
  /\ master' = settle(master, o)
  /\ alls' = mirrored(master, alls, [m \in Msgs |-> settle(alls[m], o)])
  /\ everFailed' = everFailed \cup
       {<<"all", m>> : m \in {x \in Msgs : alls'[x].st = "failed"}}
  /\ running' = running \ {allTask}
  /\ processOutcomes' = IF pc = "process"
                       THEN processOutcomes \cup outcomeFailure(o)
                       ELSE processOutcomes
  /\ UNCHANGED <<finaliseError, error, disableAttempts, disableOutcome,
                 loadBatchStateTask, saveBatchStateTask, writes>>
  /\ lateSettled' = IF master.frz THEN lateSettled \cup {allTask} ELSE lateSettled
  /\ race' = lateCompletion(running', outcomeFailure(o) # {})
  /\ UNCHANGED <<aux, env, config, keyValid, inv, table, published, savers, pc, result, messages,
                 rejectedMessages, ones, discards, undiscardedRejectedMessages,
                 invoked, incompleteMessages, chainAt, cancelled, previouslySaved,
                 prior, saveIssued, finaliseFailure, timedOutPhases, pendingItem>>

\* discardUnusableRecords: the publication of an unusable record settles.
discardUnusableDone(u, o) ==
  /\ pc # "done"
  /\ disc(u) \in running
  /\ discards' = [discards EXCEPT ![u] = settle(@, o)]
  /\ published' = IF o = "ok" THEN published \cup {u} ELSE published
  /\ everFailed' = IF discards'[u].st = "failed"
                   THEN everFailed \cup {disc(u)} ELSE everFailed
  /\ running' = running \ {disc(u)}
  /\ processOutcomes' = IF pc = "process"
                       THEN processOutcomes \cup outcomeFailure(o)
                       ELSE processOutcomes
  /\ UNCHANGED <<finaliseError, error, disableAttempts, disableOutcome,
                 loadBatchStateTask, saveBatchStateTask, writes>>
  /\ lateSettled' = IF discards[u].frz THEN lateSettled \cup {disc(u)} ELSE lateSettled
  /\ race' = lateCompletion(running', o = "fail")
  /\ UNCHANGED <<aux, env, config, keyValid, inv, table, savers, pc, result, messages, rejectedMessages,
                 ones, alls, master, undiscardedRejectedMessages, invoked,
                 incompleteMessages, chainAt, cancelled, previouslySaved, prior,
                 saveIssued, finaliseFailure, timedOutPhases, pendingItem>>

\* createCompletedPromise: everything started has settled before the timeout.
processCompleted ==
  /\ pc = "process"
  /\ every(running, processOutcomes)
  /\ pc' = "finalise"
  /\ \E h \in HookOutcomes(env) :
       /\ processOutcomes' = afterPreFinalise(processOutcomes, preFinaliseBatch(h))
       /\ race' = [race EXCEPT !.process =
                     hookDone(createCompletedPromise(@, processOutcomes # {}), h)]
  /\ UNCHANGED <<finaliseError, error, disableAttempts, disableOutcome,
                 loadBatchStateTask, saveBatchStateTask, writes, lateSettled>>
  /\ UNCHANGED <<aux, env, config, keyValid, inv, table, published, everFailed, savers, result, messages,
                 rejectedMessages, ones, alls, master, discards,
                 undiscardedRejectedMessages, running, invoked, incompleteMessages,
                 chainAt, cancelled, previouslySaved, prior, saveIssued,
                 finaliseFailure, timedOutPhases, pendingItem>>

\* A process timeout that also times out what has completed.
timeoutProcessingTasks_overridingCompleted(t) ==
  timeout(t, timeoutOpts_overridingCompleted)

\* batch.timeoutProcessingTasks
timeoutProcessingTasks(t) == timeout(t, timeoutOpts)

\* createTimeoutPromise of the process phase: cancel, then time out the tasks.
processTimeout ==
  /\ pc = "process"
  /\ ~every(running, processOutcomes)
  /\ cancelled' = TRUE
  /\ master' = timeoutProcessingTasks(master)
  /\ ones' = [m \in Msgs |-> IF m \in messages THEN timeoutProcessingTasks(ones[m])
                             ELSE ones[m]]
  /\ alls' = [m \in Msgs |-> timeoutProcessingTasks(alls[m])]
  /\ discards' = [i \in Items |-> IF i \in Unusables
                                  THEN timeoutProcessingTasks(discards[i])
                                  ELSE discards[i]]
  /\ timedOutPhases' = {"process"}
  /\ pc' = "finalise"
  /\ \E h \in HookOutcomes(env) :
       /\ processOutcomes' = afterPreFinalise({"TimeoutError"}, preFinaliseBatch(h))
       /\ race' = [race EXCEPT !.process = hookDone(createTimeoutPromise(@), h)]
  /\ UNCHANGED <<finaliseError, error, disableAttempts, disableOutcome,
                 loadBatchStateTask, saveBatchStateTask, writes>>
  /\ UNCHANGED lateSettled
  /\ UNCHANGED <<aux, env, config, keyValid, inv, table, published, everFailed, savers, result, messages,
                 rejectedMessages, undiscardedRejectedMessages, running, invoked,
                 incompleteMessages, chainAt, previouslySaved, prior, saveIssued,
                 finaliseFailure, pendingItem>>

---------------------------------------------------------------------------
\* The finalise phase.

\* A batch that never gives up on a task.
discardTaskIfOverAttempted_never(t) == t

\* batch.discardProcessingTasksIfOverAttempted and
\* batch.discardFinalisingTasksIfOverAttempted
discardTaskIfOverAttempted(t) == discardIfOverAttempted(t, MaxAttempts)

\* A finalise phase that leaves the process one tasks unfrozen.
frozenOnes_unfrozen ==
  [m \in Msgs |-> IF m \in messages THEN discardTaskIfOverAttempted(ones[m])
                  ELSE ones[m]]

\* freezeProcessingTasks: discard the over-attempted processing tasks (of the
\* messages' ones and alls, the rejected messages' and the unusable records'
\* discards, the batch's alls), then freeze the processing tasks (the batch's
\* alls, the messages' ones and alls, the unusable records' discards).
frozenOnes ==
  [m \in Msgs |-> IF m \in messages THEN freeze(discardTaskIfOverAttempted(ones[m]))
                  ELSE ones[m]]

frozenAlls ==
  [m \in Msgs |-> IF m \in messages THEN freeze(discardTaskIfOverAttempted(alls[m]))
                  ELSE alls[m]]

frozenMaster == freeze(discardTaskIfOverAttempted(master))

frozenDiscards ==
  [i \in Items |->
     IF i \in Unusables THEN freeze(discardTaskIfOverAttempted(discards[i]))
     ELSE IF i \in rejectedMessages THEN discardTaskIfOverAttempted(discards[i])
     ELSE discards[i]]

\* batch.isMessageFullyFinalisedButRejected
isMessageFullyFinalisedButRejected(o, a) ==
  /\ isFullyFinalised(o) /\ isFullyFinalised(a)
  /\ (o.st \in RejectedStates \/ a.st \in RejectedStates)

\* A batch that counts as fully finalised without looking at its unusable
\* records.
batchIsFullyFinalised_withoutUnusable(ms, os, as, ds, mst) ==
  /\ isFullyFinalised(mst)
  /\ \A m \in ms : isFullyFinalised(os[m]) /\ isFullyFinalised(as[m])
                   /\ isFullyFinalised(ds[m])

\* batch.isFullyFinalised: the batch's alls, the messages' ones, alls and
\* discards, the unusable records' discards.
batchIsFullyFinalised(ms, os, as, ds, mst) ==
  /\ isFullyFinalised(mst)
  /\ \A m \in ms : isFullyFinalised(os[m]) /\ isFullyFinalised(as[m])
                   /\ isFullyFinalised(ds[m])
  /\ \A u \in Unusables : isFullyFinalised(ds[u])

\* toBatchStateItem
toBatchStateItem(rej, os, as, ds) ==
  [exists |-> TRUE, rej |-> rej,
   ones |-> [m \in Msgs |-> toTaskLike(os[m])],
   alls |-> [m \in Msgs |-> toTaskLike(as[m])],
   discards |-> [i \in Items |-> toTaskLike(ds[i])]]

\* A finalise phase that skips the save.
saveRequired_never(ms, rej) == FALSE

\* saveBatchState: nothing is saved for a batch without any message, rejected
\* message or unusable record.
saveRequired(ms, rej) == ms \cup rej \cup Unusables # {}

\* A finalise phase that goes on to the save without freezing.
frozenFinalising_skipped(ds, und) == ds

\* freezeFinalisingTasks: discard the over-attempted discard tasks of the
\* undiscarded rejected messages, then freeze them.
frozenFinalising(ds, und) ==
  [i \in Items |-> IF i \in und THEN freeze(discardTaskIfOverAttempted(ds[i]))
                   ELSE ds[i]]

\* finaliseBatch: freeze the processing tasks, then discardRejectedMessages:
\* move the messages that are finalised but rejected, and start the discard
\* of every rejected message whose discard task is not finalised.  With
\* nothing to discard the finalising tasks are frozen and the save is issued
\* at once.  A processing callback that settles from here on finds its task
\* frozen and changes nothing: it is followed further only where a single
\* delivery is looked at.
lateCallbacks == IF env = "faults" THEN running \ {saveTask} ELSE {}

finaliseBatch ==
  /\ pc = "finalise"
  /\ LET moved == {m \in messages :
                     isMessageFullyFinalisedButRejected(frozenOnes[m], frozenAlls[m])}
         rej == rejectedMessages \cup moved
         created == [i \in Items |->
                       IF i \in rej /\ frozenDiscards[i].st = "none" THEN NewTask
                       ELSE frozenDiscards[i]]
         und == {m \in rej : ~isFullyFinalised(created[m])}
         started == [i \in Items |-> IF i \in und THEN execute(created[i])
                                     ELSE created[i]]
     IN
       /\ ones' = frozenOnes
       /\ alls' = frozenAlls
       /\ master' = frozenMaster
       /\ rejectedMessages' = rej
       /\ messages' = messages \ moved
       /\ undiscardedRejectedMessages' = und
       /\ discards' = started
       /\ invoked' = invoked \cup {disc(m) : m \in und}
       /\ IF und = {}
          THEN /\ pc' = "saving"
               /\ saveIssued' = saveRequired(messages \ moved, rej)
               /\ pendingItem' = toBatchStateItem(rej, frozenOnes, frozenAlls, started)
               /\ running' = lateCallbacks \cup
                               (IF saveIssued' THEN {saveTask} ELSE {})
          ELSE /\ pc' = "discarding"
               /\ running' = lateCallbacks \cup {disc(m) : m \in und}
               /\ UNCHANGED <<saveIssued, pendingItem>>
  /\ UNCHANGED faultVars
  /\ race' = [race EXCEPT !.finalise = startRace]
  /\ UNCHANGED <<aux, env, config, keyValid, inv, table, published, everFailed, savers, result,
                 incompleteMessages, chainAt, cancelled, previouslySaved, prior,
                 finaliseFailure, timedOutPhases>>

\* The publication of a rejected message settles.  After the last one the
\* finalising tasks are frozen and the save is issued.
discardRejectedDone(m, o) ==
  /\ pc = "discarding"
  /\ m \in Msgs
  /\ disc(m) \in running
  /\ LET settled == [discards EXCEPT ![m] = settle(@, o)]
         last == \A x \in Msgs \ {m} : disc(x) \notin running
         ds == IF last THEN frozenFinalising(settled, undiscardedRejectedMessages)
               ELSE settled
     IN
       /\ discards' = ds
       /\ published' = IF o = "ok" THEN published \cup {m} ELSE published
       /\ everFailed' = IF settled[m].st = "failed"
                        THEN everFailed \cup {disc(m)} ELSE everFailed
       /\ finaliseFailure' = (finaliseFailure \/ o = "fail")
       /\ IF last
          THEN /\ pc' = "saving"
               /\ saveIssued' = saveRequired(messages, rejectedMessages)
               /\ pendingItem' = toBatchStateItem(rejectedMessages, ones, alls, ds)
               /\ running' = (lateCallbacks \ {disc(m)}) \cup
                               (IF saveIssued' THEN {saveTask} ELSE {})
          ELSE /\ running' = running \ {disc(m)}
               /\ UNCHANGED <<pc, saveIssued, pendingItem>>
  /\ finaliseError' = IF finaliseError = NoError /\ o = "fail"
                     THEN "DiscardError" ELSE finaliseError
  /\ UNCHANGED <<processOutcomes, error, disableAttempts, disableOutcome,
                 loadBatchStateTask, saveBatchStateTask, writes>>
  /\ UNCHANGED lateSettled
  /\ UNCHANGED <<aux, race, env, config, keyValid, inv, table, savers, result, messages, rejectedMessages, ones,
                 alls, master, undiscardedRejectedMessages, invoked,
                 incompleteMessages, chainAt, cancelled, previouslySaved, prior,
                 timedOutPhases>>

\* insertBatchState writes under attribute_not_exists, updateBatchState under
\* attribute_exists; update sets the four state attributes of the item.
insertCondition(tbl) == ~tbl.exists

updateCondition(tbl) == tbl.exists

updatedItem(tbl, item) ==
  [tbl EXCEPT !.rej = item.rej, !.ones = item.ones, !.alls = item.alls,
              !.discards = item.discards]

\* saveBatchStateToDynamoDB: update a previously saved batch, else insert;
\* each falls back to the other when its condition fails.
saveBatchStateToDynamoDB(tbl, prevSaved, item) ==
  IF prevSaved
  THEN (IF updateCondition(tbl) THEN updatedItem(tbl, item) ELSE item)
  ELSE (IF insertCondition(tbl) THEN item ELSE updatedItem(tbl, item))

\* A finalise phase that overlooks the failures among its outcomes.
finaliseOutcome_ignoringFailure(failure, fullyFinalised) ==
  IF fullyFinalised THEN "resolved" ELSE "rejected"

\* The outcome of finaliseBatch once the save has settled: resolve only
\* without a finalise failure and with a fully finalised batch.
finaliseOutcome(failure, fullyFinalised) ==
  IF ~failure /\ fullyFinalised THEN "resolved" ELSE "rejected"

\* saveBatchState and saveBatchStateToDynamoDB: a write is requested only with
\* a save function configured and a complete batch key.
writeRequired(issued) ==
  issued /\ config # "noSaveFunction" /\ hasCompleteKey(keyValid)

\* The error of the save task for the answer o of the write request.
saveBatchStateError(issued, o) ==
  IF ~issued THEN NoError
  ELSE IF config = "noSaveFunction" THEN "Fatal:Configuration"
  ELSE IF ~hasCompleteKey(keyValid) THEN "SaveError"
  ELSE checkpointError(o, "SaveError")

\* The first Failure of a list of process outcomes: the timeout's when the
\* process phase timed out.
firstFailure(pOutcomes) ==
  IF "TimeoutError" \in pOutcomes THEN "TimeoutError" ELSE "ProcessError"

\* An error selection that looks for a FinalisedError before anything else.
finaliseBatchError_finalisedErrorFirst(finError, fullyFinalised, pOutcomes) ==
  IF ~fullyFinalised /\ "FinalisedError" \in pOutcomes THEN "Fatal:FinalisedError"
  ELSE IF finError # NoError THEN finError
  ELSE IF fullyFinalised THEN NoError
  ELSE IF pOutcomes # {} THEN firstFailure(pOutcomes)
  ELSE "IncompleteError"

\* finaliseBatch once its sub-tasks have settled: the first finalising failure
\* is thrown; else, for a batch not fully finalised, a FinalisedError among
\* the process outcomes as a FatalError, else the first process failure, else
\* an error that the batch is still incomplete.
finaliseBatchError(finError, fullyFinalised, pOutcomes) ==
  IF finError # NoError THEN finError
  ELSE IF fullyFinalised THEN NoError
  ELSE IF "FinalisedError" \in pOutcomes THEN "Fatal:FinalisedError"
  ELSE IF pOutcomes # {} THEN firstFailure(pOutcomes)
  ELSE "IncompleteError"

\* The save settles and finaliseBatch resolves or rejects the invocation; a
\* FatalError goes by way of handleFatalError.
saveDone(o) ==
  /\ pc = "saving"
  /\ saveIssued => saveTask \in running
  /\ \E h \in HookOutcomes(env) :
     LET saveError == saveBatchStateError(saveIssued, o)
         written == writeRequired(saveIssued)
         finError == IF finaliseError # NoError THEN finaliseError ELSE saveError
         fullyFinalised ==
           batchIsFullyFinalised(messages, ones, alls, discards, master)
         err == afterPostFinalise(
                  finaliseBatchError(finError, fullyFinalised, processOutcomes),
                  postFinaliseBatch(h))
     IN
       /\ table' = IF written /\ o = "ok"
                   THEN saveBatchStateToDynamoDB(table, previouslySaved, pendingItem)
                   ELSE table
       /\ writes' = IF written THEN writes + 1 ELSE writes
       /\ saveBatchStateTask' =
            IF saveIssued /\ config # "noSaveFunction"
            THEN checkpointTask(IF saveError = "SaveError" THEN "fail" ELSE o)
            ELSE NoTask
       /\ finaliseError' = finError
       /\ finaliseFailure' = (finaliseFailure \/ saveError # NoError)
       /\ error' = err
       /\ result' = IF isFatal(err) THEN result
                    ELSE finaliseOutcome(finaliseFailure', fullyFinalised)
       /\ pc' = IF isFatal(err) THEN "fatal" ELSE "done"
       /\ race' = [race EXCEPT !.finalise =
                     hookDone(createCompletedPromise(@, finaliseFailure'), h)]
  /\ running' = {}
  /\ UNCHANGED <<processOutcomes, disableAttempts, disableOutcome,
                 loadBatchStateTask>>
  /\ UNCHANGED lateSettled
  /\ UNCHANGED <<aux, env, config, keyValid, inv, published, everFailed, savers,
                 messages, rejectedMessages, ones, alls, master, discards,
                 undiscardedRejectedMessages, invoked, incompleteMessages, chainAt,
                 cancelled, previouslySaved, prior, saveIssued, timedOutPhases,
                 pendingItem>>

\* batch.timeoutFinalisingTasks
timeoutFinalisingTasks(ds, und) ==
  [i \in Items |-> IF i \in und THEN timeout(ds[i], timeoutOpts) ELSE ds[i]]

\* A finalise phase whose timeout lets a fully finalised batch through.
timeoutOutcome_resolvingWhenFinalised(fullyFinalised) ==
  IF fullyFinalised THEN "resolved" ELSE "rejected"

\* The finalise phase's timeout promise rejects with its TimeoutError.
timeoutOutcome(fullyFinalised) == "rejected"

\* createTimeoutPromise of the finalise phase: the invocation rejects.  A
\* save in flight may or may not have been written.
finaliseTimeout ==
  /\ pc \in {"discarding", "saving"}
  /\ LET requested == pc = "saving" /\ writeRequired(saveIssued) IN
       /\ \E written \in IF requested THEN BOOLEAN ELSE {FALSE} :
            table' = IF written
                     THEN saveBatchStateToDynamoDB(table, previouslySaved, pendingItem)
                     ELSE table
       /\ writes' = IF requested THEN writes + 1 ELSE writes
  /\ discards' = timeoutFinalisingTasks(discards, undiscardedRejectedMessages)
  /\ timedOutPhases' = timedOutPhases \cup {"finalise"}
  /\ result' = timeoutOutcome(
                  batchIsFullyFinalised(messages, ones, alls, discards', master))
  /\ \E h \in HookOutcomes(env) :
       /\ error' = afterPostFinalise(
                      IF result' = "rejected" THEN "TimeoutError" ELSE NoError,
                      postFinaliseBatch(h))
       /\ race' = [race EXCEPT !.finalise = hookDone(createTimeoutPromise(@), h)]
  /\ pc' = "done"
  /\ running' = {}
  /\ UNCHANGED <<processOutcomes, finaliseError, disableAttempts, disableOutcome,
                 loadBatchStateTask, saveBatchStateTask>>
  /\ UNCHANGED lateSettled
  /\ UNCHANGED <<aux, env, config, keyValid, inv, published, everFailed, savers,
                 messages, rejectedMessages, ones, alls, master,
                 undiscardedRejectedMessages, invoked, incompleteMessages, chainAt,
                 cancelled, previouslySaved, prior, saveIssued, finaliseFailure,
                 pendingItem>>

\* A disable attempt with an outcome that lets the invocation resolve.
rethrowCause_resolvingWhenDisabled(d) ==
  IF d = "true" THEN "resolved" ELSE "rejected"

\* handleFatalError's rethrowCause follows the disable attempt whether it
\* resolved or rejected.
rethrowCause(d) == "rejected"

\* processStreamEvent catches a FatalError of its phases: handleFatalError
\* attempts to disable the event source mapping, then throws the error again.
handleFatalError(d) ==
  /\ pc = "fatal"
  /\ disableAttempts' = disableAttempts + 1
  /\ disableOutcome' = d
  /\ result' = rethrowCause(d)
  /\ pc' = "done"
  /\ UNCHANGED <<processOutcomes, finaliseError, error, loadBatchStateTask,
                 saveBatchStateTask, writes>>
  /\ UNCHANGED lateSettled
  /\ UNCHANGED <<aux, race, env, config, keyValid, inv, table, published, everFailed, savers,
                 messages, rejectedMessages, ones, alls, master, discards,
                 undiscardedRejectedMessages, running, invoked, incompleteMessages,
                 chainAt, cancelled, previouslySaved, prior, saveIssued,
                 finaliseFailure, timedOutPhases, pendingItem>>

---------------------------------------------------------------------------
\* The host.

resetBatch ==
  /\ pc' = "start"
  /\ result' = "none"
  /\ messages' = {}
  /\ rejectedMessages' = {}
  /\ ones' = [m \in Msgs |-> NoTask]
  /\ alls' = [m \in Msgs |-> NoTask]
  /\ master' = NoTask
  /\ discards' = [i \in Items |-> NoTask]
  /\ undiscardedRejectedMessages' = {}
  /\ running' = {}
  /\ invoked' = {}
  /\ incompleteMessages' = {}
  /\ chainAt' = NoMsg
  /\ cancelled' = FALSE
  /\ previouslySaved' = FALSE
  /\ prior' = NoItem
  /\ saveIssued' = FALSE
  /\ finaliseFailure' = FALSE
  /\ timedOutPhases' = {}
  /\ pendingItem' = NoItem
  /\ processOutcomes' = {}
  /\ finaliseError' = NoError
  /\ error' = NoError
  /\ disableAttempts' = 0
  /\ disableOutcome' = "none"
  /\ loadBatchStateTask' = NoTask
  /\ saveBatchStateTask' = NoTask
  /\ writes' = 0
  /\ lateSettled' = {}
  /\ race' = NoRace

invocationLimit == IF env = "any" THEN MaxInvocations ELSE RetryInvocations

\* A rejected invocation makes the host deliver the same records again.
redeliver ==
  /\ pc = "done"
  /\ result = "rejected"
  /\ env = "any" => inv < invocationLimit
  /\ inv' = IF inv < invocationLimit THEN inv + 1 ELSE inv
  /\ resetBatch
  /\ UNCHANGED <<aux, env, config, keyValid, table, published, everFailed, savers>>

\* An at-least-once host may deliver an acknowledged batch again.
duplicateDelivery ==
  /\ pc = "done"
  /\ result = "resolved"
  /\ inv < invocationLimit
  /\ inv' = inv + 1
  /\ resetBatch
  /\ UNCHANGED <<aux, env, config, keyValid, table, published, everFailed, savers>>

Next ==
  \/ initiateBatch
  \/ initiateBatchFails
  \/ processBatch
  \/ \E m \in Msgs, o \in OneOutcomes : processOneDone(m, o)
  \/ \E o \in AllOutcomes : processAllDone(o)
  \/ \E u \in Unusables, o \in IOOutcomes : discardUnusableDone(u, o)
  \/ processCompleted
  \/ processTimeout
  \/ finaliseBatch
  \/ \E m \in Msgs, o \in IOOutcomes : discardRejectedDone(m, o)
  \/ \E o \in IOOutcomes : saveDone(o)
  \/ finaliseTimeout
  \/ redeliver
  \/ duplicateDelivery

Spec == Init /\ [][Next]_vars

---------------------------------------------------------------------------
\* A retrying host with no timeout and no I/O failure: the user's callbacks
\* may still fail or reject on every attempt.

InitRetry == InitEnv("retry")

NextRetry ==
  \/ initiateBatch
  \/ processBatch
  \/ \E m \in Msgs, o \in OneOutcomes : processOneDone(m, o)
  \/ \E o \in AllOutcomes : processAllDone(o)
  \/ \E u \in Unusables, o \in IOOutcomes : discardUnusableDone(u, o)
  \/ processCompleted
  \/ finaliseBatch
  \/ \E m \in Msgs, o \in IOOutcomes : discardRejectedDone(m, o)
  \/ \E o \in IOOutcomes : saveDone(o)
  \/ redeliver

\* The runtime runs every pending callback and the host redelivers.
SpecRetry == InitRetry /\ [][NextRetry]_vars /\ WF_vars(NextRetry)

---------------------------------------------------------------------------
\* Two invocations of the same batch key that save concurrently, neither
\* having found a prior item.

taskLike(st, att) == [st |-> st, att |-> att, frz |-> FALSE]

\* What an invocation may have reached for m1, m2 and u1 when it saves.
SaverProgress ==
  {<<"completed", "completed">>, <<"completed", "failed">>,
   <<"completed", "unstarted">>, <<"failed", "unstarted">>,
   <<"unstarted", "unstarted">>}

attemptsOf(st) == IF st = "unstarted" THEN 0 ELSE 1

saverItem(p, d) ==
  [exists |-> TRUE, rej |-> {},
   ones |-> [m \in Msgs |-> IF m = "m1" THEN taskLike(p[1], attemptsOf(p[1]))
                            ELSE taskLike(p[2], attemptsOf(p[2]))],
   alls |-> [m \in Msgs |-> taskLike("completed", 1)],
   discards |-> [i \in Items |-> IF i \in Unusables THEN taskLike(d, 1) ELSE NoTask]]

SaverItems == {saverItem(p, d) : p \in SaverProgress, d \in {"completed", "failed"}}

InitRace ==
  /\ env = "race"
  /\ idleAux
  /\ firstMessagesToProcess = {firstMessageToProcess}
  /\ eventRecords = Records
  /\ config = "ok"
  /\ keyValid = TRUE
  /\ inv = 1
  /\ table = NoItem
  /\ published = {}
  /\ everFailed = {}
  /\ pc = "race"
  /\ blankBatch
  /\ savers \in [Savers -> {[pc |-> "insert", item |-> it, inserted |-> FALSE,
                              writes |-> 0] : it \in SaverItems}]

\* insertBatchState: a conditional put; when the condition fails, update.
insertBatchState(s) ==
  /\ savers[s].pc = "insert"
  /\ IF insertCondition(table)
     THEN /\ table' = savers[s].item
          /\ savers' = [savers EXCEPT ![s].pc = "done", ![s].inserted = TRUE,
                                      ![s].writes = @ + 1]
     ELSE /\ table' = table
          /\ savers' = [savers EXCEPT ![s].pc = "update", ![s].writes = @ + 1]
  /\ UNCHANGED <<aux, env, config, keyValid, inv, published, everFailed, perInvocation>>

\* updateBatchState: a conditional update; when the condition fails, insert.
updateBatchState(s) ==
  /\ savers[s].pc = "update"
  /\ IF updateCondition(table)
     THEN /\ table' = updatedItem(table, savers[s].item)
          /\ savers' = [savers EXCEPT ![s].pc = "done", ![s].writes = @ + 1]
     ELSE /\ table' = table
          /\ savers' = [savers EXCEPT ![s].pc = "insert", ![s].writes = @ + 1]
  /\ UNCHANGED <<aux, env, config, keyValid, inv, published, everFailed, perInvocation>>

NextRace ==
  \/ \E s \in Savers : insertBatchState(s)
  \/ \E s \in Savers : updateBatchState(s)

SpecRace == InitRace /\ [][NextRace]_vars

---------------------------------------------------------------------------
\* One delivery to a consumer that may be misconfigured, whose batch key may
\* be incomplete, whose callbacks may end in a FinalisedError and whose
\* checkpoint requests may find the table missing or fail with a retryable
\* error.

InitFaults ==
  /\ env = "faults"
  /\ idleAux
  /\ firstMessagesToProcess \in {{firstMessageToProcess}, Msgs}
  /\ eventRecords \in {<<>>, Records}
  /\ config \in Configs
  /\ keyValid \in BOOLEAN
  /\ inv = 1
  /\ table = NoItem
  /\ published = {}
  /\ everFailed = {}
  /\ savers = IdleSavers
  /\ newBatch

NextFaults ==
  \/ rejectInvalidConfiguration
  \/ consumeUselessEvent
  \/ initiateBatch
  \/ \E o \in CheckpointOutcomes : loadBatchStateFails(o)
  \/ \E cause \in InitiateFailures : initiateStepFails(cause)
  \/ processBatch
  \/ \E m \in Msgs, o \in OneOutcomes \cup FaultOutcomes : processOneDone(m, o)
  \/ \E o \in AllOutcomes \cup FaultOutcomes : processAllDone(o)
  \/ \E u \in Unusables, o \in IOOutcomes : discardUnusableDone(u, o)
  \/ processCompleted
  \/ processTimeout
  \/ finaliseBatch
  \/ \E m \in Msgs, o \in IOOutcomes : discardRejectedDone(m, o)
  \/ \E o \in CheckpointOutcomes : saveDone(o)
  \/ finaliseTimeout
  \/ \E d \in DisableOutcomes : handleFatalError(d)

SpecFaults == InitFaults /\ [][NextFaults]_vars

---------------------------------------------------------------------------
\* Properties.

\* The attempts a task had when the invocation loaded the prior state.
priorAttempts(k, i) ==
  CASE k = "one" -> prior.ones[i].att
    [] k = "all" -> prior.alls[i].att
    [] k = "disc" -> prior.discards[i].att

\* C1: within one invocation, the process one task of a message's next
\* message is started only once the process one task of the message itself
\* is fully finalised, whatever completes, fails or times out and in whatever
\* order.
C1_NextStartsAfterFinalised ==
  \A m \in Msgs :
    (nextMessage(m) # NoMsg /\ one(nextMessage(m)) \in invoked)
      => finalised(ones[m])

C1_Witness ==
  /\ pc = "process"
  /\ one("m2") \in running
  /\ ones["m1"].st = "rejected"
  /\ allTask \in running

\* C2: an invocation resolves only if every message, rejected message and
\* unusable record has all its process one, process all and discard tasks
\* fully finalised; otherwise it rejects.
allItemsFinalised ==
  /\ \A m \in messages \cup rejectedMessages :
       /\ finalised(ones[m]) /\ finalised(alls[m])
       /\ isFullyFinalised(discards[m])
       /\ m \in rejectedMessages => finalised(discards[m])
  /\ \A u \in Unusables : finalised(discards[u])

C2_ResolvesOnlyIfAllFinalised ==
  /\ result = "resolved" => allItemsFinalised
  /\ (pc = "done" /\ ~allItemsFinalised) => result = "rejected"

C2_Witness ==
  /\ result = "resolved"
  /\ rejectedMessages # {}
  /\ messages # {}

failedEveryAttempt(m) ==
  one(m) \in invoked /\ ones[m].st \notin {"completed", "rejected"}

C4_DiscardedAtMaxAttempts ==
  /\ failedEveryAttempt(firstMessageToProcess)
       => ones[firstMessageToProcess].att = inv
  /\ pc = "done" =>
       \A m \in Msgs :
         failedEveryAttempt(m) =>
           IF ones[m].att < MaxAttempts
           THEN ones[m].st = "failed" /\ m \in messages
           ELSE /\ ones[m].att = MaxAttempts
                /\ ones[m].st = "discarded"
                /\ m \in rejectedMessages
                /\ disc(m) \in invoked

C4_Witness ==
  /\ pc = "done"
  /\ inv = MaxAttempts
  /\ ones["m1"].st = "discarded"
  /\ "m1" \in rejectedMessages
  /\ disc("m1") \in invoked
  /\ prior.ones["m1"].att = MaxAttempts - 1

\* C5 as stated: with a retrying host, no timeout and no checkpoint or
\* dead-letter failure, the batch is eventually acknowledged, even when a
\* process one or the process all callback fails on every attempt.
C5_EventuallyAcknowledged == <>(result = "resolved")

\* Every task of the batch with its kind and item; the batch's own process
\* all task starts every invocation without attempts.
tasksOfBatch ==
  {<<"one", m, ones[m]>> : m \in Msgs} \cup {<<"all", m, alls[m]>> : m \in Msgs}
    \cup {<<"disc", i, discards[i]>> : i \in Items}

\* C6: a task that a phase timeout times out while its attempt is in progress
\* becomes timedOut and has the attempts it had before that attempt began;
\* right after the process phase timed out no task it reaches is left started;
\* and a task that only ever timed out is never discarded as over-attempted.
C6_TimeoutReversesAttempt ==
  /\ \A x \in tasksOfBatch :
       /\ x[3].st = "timedOut" => x[3].att = priorAttempts(x[1], x[2])
       /\ x[3].st = "discarded" => <<x[1], x[2]>> \in everFailed
  /\ master.st = "timedOut" => master.att = 0
  /\ (pc = "finalise" /\ "process" \in timedOutPhases) =>
       /\ master.st # "started"
       /\ \A m \in messages : ones[m].st # "started" /\ alls[m].st # "started"
       /\ \A u \in Unusables : discards[u].st # "started"

C6_Witness ==
  /\ "process" \in timedOutPhases
  /\ ones["m1"].st = "timedOut"
  /\ ones["m1"].att = 1
  /\ prior.ones["m1"].att = 1
  /\ master.st = "timedOut"

\* The initiate phase of the invocation succeeded: the batch has its messages
\* and none of the steps after the extraction failed.
initiated ==
  /\ messages \cup rejectedMessages # {}
  /\ error \notin {initiateError(cause) : cause \in InitiateFailures}

\* C7 as stated: every invocation whose initiate phase succeeded issues the
\* checkpoint save before it ends.
C7_SaveAlwaysIssued == (pc = "done" /\ initiated) => saveIssued

\* C7, amended: an invocation whose initiate phase succeeded ends without
\* having issued the save only when the finalise phase timed out while
\* rejected messages were still being discarded; it has issued the save
\* whenever the finalise phase did not time out, also when the process phase
\* timed out and when process or discard tasks failed.
C7_SaveIssuedUnlessFinaliseTimedOut ==
  (pc = "done" /\ initiated /\ ~saveIssued) =>
    /\ "finalise" \in timedOutPhases
    /\ undiscardedRejectedMessages # {}

C7_Witness ==
  /\ pc = "done"
  /\ timedOutPhases = {"process"}
  /\ saveIssued
  /\ finaliseFailure
  /\ ones["m2"].st = "timedOut"

\* The items whose discard the batch owes to a dead-letter stream.
deadLetterItems == rejectedMessages \cup Unusables

\* C8 as stated: an acknowledged batch has every rejected message and every
\* unusable record successfully published to its dead-letter stream.
C8_AcknowledgedOnlyIfPublished ==
  result = "resolved" => \A i \in deadLetterItems : i \in published

\* C8, amended: an acknowledged batch has, for every rejected message and
\* every unusable record, a discard task that either completed with the item
\* published or was discarded after maxNumberOfAttempts failed attempts.
C8_AcknowledgedOnlyIfPublishedOrGivenUp ==
  result = "resolved" =>
    \A i \in deadLetterItems :
      \/ discards[i].st = "completed" /\ i \in published
      \/ /\ discards[i].st = "discarded"
         /\ discards[i].att >= MaxAttempts
         /\ disc(i) \in everFailed

C8_Witness ==
  /\ result = "resolved"
  /\ rejectedMessages # {}
  /\ deadLetterItems \subseteq published

\* The item was published to its dead-letter stream and that state is saved.
deadLettered(i) == table.exists /\ table.discards[i].st = "completed"

\* C9: once an item is published to its dead-letter stream and that state is
\* saved, no step of a later invocation publishes it again, starts its process
\* one callback or passes it to the process all callback.
C9_DeadLetteredNeverComesBack ==
  [][\A i \in Items :
       deadLettered(i) =>
         /\ disc(i) \in invoked' => disc(i) \in invoked
         /\ one(i) \in invoked' => one(i) \in invoked
         /\ i \in incompleteMessages' => i \in incompleteMessages]_vars

C9_Witness ==
  /\ deadLettered("m1")
  /\ deadLettered("u1")
  /\ inv > 1
  /\ pc = "process"
  /\ allTask \in running
  /\ "m1" \in rejectedMessages

\* C10 as stated: after both concurrent saves, what the invocation whose
\* insert succeeded saved of finalised tasks is still in the checkpoint.
keptIn(tbl, item) ==
  /\ \A m \in Msgs : finalised(item.ones[m]) => tbl.ones[m] = item.ones[m]
  /\ \A m \in Msgs : finalised(item.alls[m]) => tbl.alls[m] = item.alls[m]
  /\ \A i \in Items : finalised(item.discards[i]) => tbl.discards[i] = item.discards[i]

C10_FirstSaveNotClobbered ==
  (\A s \in Savers : savers[s].pc = "done") =>
    \A s \in Savers : savers[s].inserted => keptIn(table, savers[s].item)

---------------------------------------------------------------------------
\* Concurrent saves of one batch key while the item may also be deleted from
\* the table.  Each saver loaded the table before the others wrote: it starts
\* with the write its previouslySaved selects.

firstWrite(prevSaved) == IF prevSaved THEN "update" ELSE "insert"

InitChurn ==
  /\ env = "churn"
  /\ idleAux
  /\ firstMessagesToProcess = {firstMessageToProcess}
  /\ eventRecords = Records
  /\ config = "ok"
  /\ keyValid = TRUE
  /\ inv = 1
  /\ table \in {NoItem} \cup SaverItems
  /\ published = {}
  /\ everFailed = {}
  /\ pc = "race"
  /\ blankBatch
  /\ savers \in [Savers -> {[pc |-> firstWrite(table.exists), item |-> it,
                              inserted |-> FALSE, writes |-> 0] :
                             it \in SaverItems}]

\* The item of the batch is deleted from the table by another party.
deleteItem ==
  /\ table.exists
  /\ table' = NoItem
  /\ UNCHANGED <<aux, env, config, keyValid, inv, published, everFailed, perInvocation, savers>>

NextChurn ==
  \/ \E s \in Savers : insertBatchState(s)
  \/ \E s \in Savers : updateBatchState(s)
  \/ deleteItem

SpecChurn == InitChurn /\ [][NextChurn]_vars

\* C11 as stated: a single save issues at most two writes, the first in the
\* mode its previouslySaved selects and, after a failed condition check, one
\* retry in the other mode; it never switches modes a second time.
C11_AtMostTwoWrites == \A s \in Savers : savers[s].writes <= 2

\* The finalise phase of the invocation has settled without timing out.
finaliseSettled ==
  /\ pc \in {"done", "fatal"}
  /\ initiated
  /\ "finalise" \notin timedOutPhases

fullyFinalisedNow == batchIsFullyFinalised(messages, ones, alls, discards, master)

\* The errors a finalise sub-task (discard rejected, save) may fail with.
FinaliseFailures ==
  {"DiscardError", "SaveError", "TransientError", "Fatal:MissingTable",
   "Fatal:Configuration"}

\* C12 as stated: a batch not fully finalised after the finalise phase rejects
\* with a FatalError wrapping the FinalisedError whenever a process outcome
\* carries one, even if a finalise sub-task failed too; otherwise with the
\* first process or finalise failure; otherwise with the incomplete error.
C12_FinalisedErrorFirst ==
  (finaliseSettled /\ ~fullyFinalisedNow) =>
    /\ pc = "done" => result = "rejected"
    /\ error = IF "FinalisedError" \in processOutcomes THEN "Fatal:FinalisedError"
               ELSE IF finaliseFailure THEN finaliseError
               ELSE IF processOutcomes # {} THEN firstFailure(processOutcomes)
               ELSE "IncompleteError"

\* C12, amended: once the finalise phase has settled, a failure of one of its
\* sub-tasks is the error of the invocation, whatever the process outcomes
\* carry and whether or not the batch is fully finalised; without such a
\* failure a batch that is not fully finalised rejects with a FatalError
\* wrapping the FinalisedError when a process outcome carries one, else with
\* the first process failure, else with the incomplete error; and without any
\* such failure a fully finalised batch has no error.
C12_FinaliseFailureFirst ==
  finaliseSettled =>
    /\ finaliseFailure => (error = finaliseError /\ error \in FinaliseFailures)
    /\ (~finaliseFailure /\ ~fullyFinalisedNow) =>
         error = IF "FinalisedError" \in processOutcomes THEN "Fatal:FinalisedError"
                 ELSE IF processOutcomes # {} THEN firstFailure(processOutcomes)
                 ELSE "IncompleteError"
    /\ (~finaliseFailure /\ fullyFinalisedNow) => error = NoError
    /\ (pc = "done" /\ error # NoError) => result = "rejected"
    /\ pc = "fatal" <=> (isFatal(error) /\ disableAttempts = 0)

C12_Witness ==
  /\ finaliseSettled
  /\ pc = "done"
  /\ ~fullyFinalisedNow
  /\ finaliseFailure
  /\ processOutcomes = {"FinalisedError", "ProcessError"}
  /\ error = "DiscardError"

\* C13: when the finalise timeout fires before the finalising sub-tasks have
\* all completed, the invocation rejects with the timeout's error, also when
\* every task of every item is already finalised.
C13_FinaliseTimeoutRejects ==
  "finalise" \in timedOutPhases =>
    /\ pc = "done"
    /\ result = "rejected"
    /\ error = "TimeoutError"

C13_Witness ==
  /\ "finalise" \in timedOutPhases
  /\ fullyFinalisedNow
  /\ rejectedMessages # {}
  /\ \A i \in Items : finalised(discards[i])
  /\ result = "rejected"

\* C14 as stated: every invocation that ends with a FatalError has made one
\* attempt to disable the event source mapping before its failure surfaced,
\* and an invocation that ends otherwise has made none.
C14_FatalAlwaysDisables ==
  pc = "done" => disableAttempts = (IF isFatal(error) THEN 1 ELSE 0)

\* C15: handleFatalError never resolves: whether the disable attempt resolves
\* true, resolves false or rejects, the invocation rejects with the fatal
\* error it was handed.
C15_FatalErrorAlwaysRethrown ==
  [][pc = "fatal" =>
       /\ isFatal(error)
       /\ pc' = "done"
       /\ result' = "rejected"
       /\ error' = error
       /\ disableAttempts' = disableAttempts + 1]_vars

C15_Witness ==
  /\ pc = "done"
  /\ disableOutcome = "rejects"
  /\ disableAttempts = 1
  /\ error = "Fatal:FinalisedError"
  /\ result = "rejected"

\* C16: no checkpoint write is issued for a batch whose key is incomplete, and
\* nothing of it ever gets into the table.
C16_NoWriteWithInvalidKey == ~keyValid => (writes = 0 /\ table = NoItem)

C16_Witness ==
  /\ ~keyValid
  /\ pc = "done"
  /\ saveIssued
  /\ saveBatchStateTask.st = "failed"
  /\ error = "SaveError"

\* The load or the save task t failed with error e, raw being the request's
\* own error: a TransientError comes with the attempt reverted, a FatalError
\* for the missing table and the request's own error with the attempt counted.
classified(t, e, raw) ==
  t.st = "failed" =>
    \/ e = "TransientError" /\ t.att = 0
    \/ e \in {"Fatal:MissingTable", raw} /\ t.att = 1

\* C17: a checkpoint load or save that fails surfaces a missing table as a
\* FatalError, a retryable error of the SDK as a TransientError after the
\* attempt of the wrapping task was reverted, and any other error unchanged
\* with the attempt still counted.
C17_CheckpointErrorsClassified ==
  /\ classified(loadBatchStateTask, error, "LoadError")
  /\ finaliseError # "DiscardError" =>
       classified(saveBatchStateTask, finaliseError, "SaveError")
  /\ \A t \in {loadBatchStateTask, saveBatchStateTask} :
       t.st \in {"none", "completed", "failed"} /\ (t.st = "completed" => t.att = 1)

C17_Witness ==
  /\ pc = "done"
  /\ loadBatchStateTask.st = "completed"
  /\ saveBatchStateTask = [st |-> "failed", att |-> 0, frz |-> FALSE]
  /\ error = "TransientError"
  /\ result = "rejected"

\* The prior state the invocation loaded shows every task of every item
\* finalised.
priorFullyFinalised ==
  /\ prior.exists
  /\ \A m \in Msgs : /\ finalised(prior.ones[m]) /\ finalised(prior.alls[m])
                     /\ m \in prior.rej => finalised(prior.discards[m])
  /\ \A u \in Unusables : finalised(prior.discards[u])

\* C18 as stated: an invocation whose loaded prior state shows every item
\* fully finalised invokes no process or discard callback, issues no
\* checkpoint write and, with no timeout and no failure, resolves.
C18_NoEffectWhenFinalised ==
  priorFullyFinalised =>
    /\ invoked = {}
    /\ writes = 0
    /\ (pc = "done" /\ timedOutPhases = {} /\ ~finaliseFailure) => result = "resolved"

\* A frozen task is the same after the step.
frozenKept(t, t2) == t.frz => t2 = t

\* C19: within an invocation no step changes the state or the attempts of a
\* frozen task, a processing callback that settles after the freeze included,
\* and the item that is saved holds the states the tasks were frozen with.
C19_FrozenTasksKeepState ==
  [][/\ pc' # "start" =>
          /\ \A m \in Msgs : /\ frozenKept(ones[m], ones'[m])
                             /\ frozenKept(alls[m], alls'[m])
          /\ frozenKept(master, master')
          /\ \A i \in Items : frozenKept(discards[i], discards'[i])
     /\ pc = "saving" =>
          pendingItem = toBatchStateItem(rejectedMessages, ones, alls, discards)
     /\ (pc' = "done" /\ writes' > 0 /\ table'.exists) =>
          table' = toBatchStateItem(rejectedMessages', ones', alls', discards')]_vars

C19_Witness ==
  /\ pc = "done"
  /\ {one("m1"), allTask} \subseteq lateSettled
  /\ ones["m1"].st = "timedOut"
  /\ ones["m1"].frz
  /\ table.exists
  /\ table.ones["m1"].st = "timedOut"

\* A completed, rejected or discarded task is the same after the step.
absorbing(t, t2) == t.st \in {"completed", "rejected", "discarded"} => t2 = t

\* C20: the timeout of the process phase and the timeout of the finalise
\* phase leave every completed, rejected or discarded task as it is.
C20_TimeoutLeavesFinalised ==
  [][(timedOutPhases' # timedOutPhases /\ pc' # "start") =>
       /\ \A m \in Msgs : /\ absorbing(ones[m], ones'[m])
                          /\ absorbing(alls[m], alls'[m])
       /\ absorbing(master, master')
       /\ \A i \in Items : absorbing(discards[i], discards'[i])]_vars

C20_Witness ==
  /\ pc = "finalise"
  /\ "process" \in timedOutPhases
  /\ ones["m1"].st = "rejected"
  /\ ones["m2"].st = "timedOut"
  /\ discards["u1"].st = "completed"
  /\ master.st = "timedOut"

staysFinalised(t, t2) == finalised(t) => finalised(t2)

\* C22: within an invocation a task that is fully finalised stays fully
\* finalised under every later step: the phase timeouts, the discards of
\* over-attempted tasks, the freezes and the mirroring of the batch's process
\* all task onto its slaves.
C22_FullyFinalisedIsMonotone ==
  [][pc' # "start" =>
       /\ \A m \in Msgs : /\ staysFinalised(ones[m], ones'[m])
                          /\ staysFinalised(alls[m], alls'[m])
       /\ staysFinalised(master, master')
       /\ \A i \in Items : staysFinalised(discards[i], discards'[i])]_vars

C22_Witness ==
  /\ inv > 1
  /\ pc = "done"
  /\ "process" \in timedOutPhases
  /\ prior.alls["m1"].st = "completed"
  /\ alls["m1"].st = "completed"
  /\ alls["m1"].frz
  /\ master.st = "timedOut"
  /\ ones["m1"].st = "completed"
  /\ ones["m1"].att = MaxAttempts
  /\ discards["u1"].st = "completed"
  /\ discards["u1"].frz

---------------------------------------------------------------------------
\* The initiate phase in detail: the records of an event are extracted into
\* the messages, the rejected messages and the unusable records of the batch,
\* the messages are sequenced, and the restore and the discard of rejected
\* messages move messages to the rejected messages.

\* The message object extracted from a record and the record object itself
\* are different objects.
message(r) == <<"message", r>>

record(r) == <<"record", r>>

MessageKeys == {"k1", "k2"}

\* The sequence numbers a message may resolve to: parts of a key and a value.
SeqNos == {<<<<"a", 1>>>>, <<<<"a", 2>>>>, <<<<"a", 1>>, <<"b", 1>>>>}

\* No message: an undefined prevMessage or nextMessage.
undefinedMessage == <<"message", "none">>

\* The tracked state of an item.
TrackedState(k, sn) ==
  [key |-> k, seqNos |-> sn, prevMessage |-> undefinedMessage,
   nextMessage |-> undefinedMessage]

NoKey == "none"

\* The main model stands still while the initiate phase is looked at.
main == <<env, config, keyValid, inv, table, published, everFailed,
          perInvocation, savers, firstMessagesToProcess, comparison, timing,
          eventRecords, loadedItem, esmCache, taskDefs>>

\* A batch that does not cache the state it creates for an item.
getOrSetState_uncached(states, item, st) == states

\* getOrSetState: the state of the item, created and cached when missing.
getOrSetState(states, item, st) ==
  IF item \in DOMAIN states THEN states
  ELSE [x \in DOMAIN states \cup {item} |-> IF x = item THEN st ELSE states[x]]

Range(seq) == {seq[i] : i \in DOMAIN seq}

\* Array.prototype.indexOf, 0 when the item is not in the list.
indexOf(seq, x) ==
  IF x \in Range(seq) THEN CHOOSE i \in DOMAIN seq :
                             seq[i] = x /\ \A j \in 1..(i - 1) : seq[j] # x
  ELSE 0

\* splice(pos, 1)
splice(seq, pos) == [i \in 1..(Len(seq) - 1) |-> IF i < pos THEN seq[i] ELSE seq[i + 1]]

\* A move that leaves the message among the messages.
moveMessageToRejected_keeping(b, m) ==
  [b EXCEPT !.rejectedMessages = IF m \in Range(@) THEN @ ELSE Append(@, m)]

\* moveMessageToRejected: push the message onto the rejected messages unless
\* it is there, and splice it out of the messages if it is there.
moveMessageToRejected(b, m) ==
  LET spliced == IF indexOf(b.messages, m) # 0
                 THEN splice(b.messages, indexOf(b.messages, m))
                 ELSE b.messages
  IN [b EXCEPT !.rejectedMessages = IF m \in Range(@) THEN @ ELSE Append(@, m),
               !.messages = spliced,
               !.firstMessagesToProcess = IF b.sameArray THEN spliced ELSE @]

RECURSIVE moveAll(_, _)
moveAll(b, ms) ==
  IF ms = <<>> THEN b ELSE moveAll(moveMessageToRejected(b, Head(ms)), Tail(ms))

\* The sub-sequences of a list, in the order of the list.
SelectIn(seq, S) == SelectSeq(seq, LAMBDA x : x \in S)

InitExtract ==
  /\ env = "extract"
  /\ idleFunctions
  /\ firstMessagesToProcess = {firstMessageToProcess}
  /\ eventRecords = Records
  /\ config = "ok"
  /\ keyValid = TRUE
  /\ inv = 1
  /\ table = NoItem
  /\ published = {}
  /\ everFailed = {}
  /\ savers = IdleSavers
  /\ pc = "extract"
  /\ blankBatch
  /\ step = "extract"
  /\ streamProcessing \in [sequencingRequired : BOOLEAN, sequencingPerKey : BOOLEAN]
  /\ pending = Records
  /\ batch = emptyBatch
  /\ fatalItems = {}

\* addMessage of a valid message whose ids, keys and sequence numbers resolve.
addMessage(k, sn) ==
  /\ step = "extract"
  /\ pending # <<>>
  /\ LET m == message(Head(pending)) IN
       batch' = [batch EXCEPT
                   !.states = getOrSetState(@, m, TrackedState(k, sn)),
                   !.messages = Append(@, m)]
  /\ pending' = Tail(pending)
  /\ UNCHANGED <<main, step, streamProcessing, fatalItems>>

\* addMessage of a valid message whose resolution fails with an error that is
\* not fatal: the message is added as a rejected message.
addRejectedMessage ==
  /\ step = "extract"
  /\ pending # <<>>
  /\ LET m == message(Head(pending)) IN
       batch' = [batch EXCEPT
                   !.states = getOrSetState(@, m, TrackedState(NoKey, <<>>)),
                   !.rejectedMessages = Append(@, m)]
  /\ pending' = Tail(pending)
  /\ UNCHANGED <<main, step, streamProcessing, fatalItems>>

\* addUnusableRecord, also by way of addMessage with an invalid message: the
\* record itself is tracked as the unusable record.
addUnusableRecord ==
  /\ step = "extract"
  /\ pending # <<>>
  /\ LET u == record(Head(pending)) IN
       batch' = [batch EXCEPT
                   !.states = getOrSetState(@, u, TrackedState(NoKey, <<>>)),
                   !.unusableRecords = Append(@, u)]
  /\ pending' = Tail(pending)
  /\ UNCHANGED <<main, step, streamProcessing, fatalItems>>

\* addMessage or addUnusableRecord ends in a FatalError (no function to
\* resolve the ids or to generate the MD5s, or a resolve function that throws
\* one): the state of the item is cached, the item is pushed onto no list.
\* The other records of the event are still extracted.
addFails(kind) ==
  /\ step = "extract"
  /\ pending # <<>>
  /\ LET i == <<kind, Head(pending)>> IN
       /\ batch' = [batch EXCEPT
                      !.states = getOrSetState(@, i, TrackedState(NoKey, <<>>))]
       /\ fatalItems' = fatalItems \cup {i}
  /\ pending' = Tail(pending)
  /\ UNCHANGED <<main, step, streamProcessing>>

\* extractAndSequenceMessages rethrows the FatalError of an extraction.
extractFails ==
  /\ step = "extract"
  /\ pending = <<>>
  /\ fatalItems # {}
  /\ step' = "failed"
  /\ UNCHANGED <<main, streamProcessing, pending, batch, fatalItems>>

\* The order of core-functions' compareStrings on the keys of the parts.
PartKeys == <<"a", "b">>

sign(n) == IF n < 0 THEN -1 ELSE IF n > 0 THEN 1 ELSE 0

compareStrings(s1, s2) == sign(indexOf(PartKeys, s1) - indexOf(PartKeys, s2))

\* The compare function of a sortable of numbers.
compareNumbers(v1, v2) == sign(v1 - v2)

\* The parts of two sequence numbers of the same length, from part p on: the
\* keys of the parts decide, then their values.
RECURSIVE compareParts(_, _, _)
compareParts(sn1, sn2, p) ==
  IF p > Len(sn1) THEN 0
  ELSE LET keyComparison == compareStrings(sn1[p][1], sn2[p][1])
           valueComparison == compareNumbers(sn1[p][2], sn2[p][2])
       IN IF keyComparison # 0 THEN keyComparison
          ELSE IF valueComparison < 0 THEN -1
          ELSE IF valueComparison > 0 THEN 1
          ELSE compareParts(sn1, sn2, p + 1)

max(a, b) == IF a >= b THEN a ELSE b

\* A comparator that sorts the message with too few parts first.
compareSameKeyMessages_fewerPartsFirst(sn1, sn2) ==
  LET maxParts == max(Len(sn1), Len(sn2)) IN
    IF Len(sn1) < maxParts THEN -1
    ELSE IF Len(sn2) < maxParts THEN -1
    ELSE compareParts(sn1, sn2, 1)

\* compareSameKeyMessages, on the prepared sequence numbers of two messages of
\* the same keys: the message with too few parts sorts after the other.
compareSameKeyMessages(sn1, sn2) ==
  LET maxParts == max(Len(sn1), Len(sn2)) IN
    IF Len(sn1) < maxParts THEN 1
    ELSE IF Len(sn2) < maxParts THEN -1
    ELSE compareParts(sn1, sn2, 1)

\* compareAnyKeyMessages compares the sequence numbers in the same way.
compareAnyKeyMessages(sn1, sn2) == compareSameKeyMessages(sn1, sn2)

\* prepareMessagesForSequencing throws, when sequencing is required, if the
\* messages do not all have the same key at some part of their sequence
\* numbers, a missing part counting as a key of its own.
prepareThrows(b) ==
  LET sns == {b.states[m].seqNos : m \in Range(b.messages)}
      keyAt(sn, p) == IF p <= Len(sn) THEN sn[p][1] ELSE "undefined"
  IN \E sn1 \in sns, sn2 \in sns :
       \E p \in 1..max(Len(sn1), Len(sn2)) : keyAt(sn1, p) # keyAt(sn2, p)

\* The group a message is sorted and linked in: the messages of its key, or
\* all messages when the sequencing is not per key.
groupOf(b, sp, m) == IF sp.sequencingPerKey THEN b.states[m].key ELSE "*"

comparator(b, sp, m1, m2) ==
  IF sp.sequencingPerKey
  THEN compareSameKeyMessages(b.states[m1].seqNos, b.states[m2].seqNos)
  ELSE compareAnyKeyMessages(b.states[m1].seqNos, b.states[m2].seqNos)

\* The orders Array.prototype.sort may leave the groups in.
sortedOrders(b, sp) ==
  LET n == Len(b.messages)
      ms == Range(b.messages)
  IN {perm \in [1..n -> ms] :
        /\ \A m \in ms : \E i \in 1..n : perm[i] = m
        /\ \A i \in 1..n, j \in 1..n :
             (i < j /\ groupOf(b, sp, perm[i]) = groupOf(b, sp, perm[j]))
               => comparator(b, sp, perm[i], perm[j]) <= 0}

\* A sequencing that never sets the previous message of a message.
setPrevMessage_dropped(messageState, prev) == messageState

setPrevMessage(messageState, prev) == [messageState EXCEPT !.prevMessage = prev]

setNextMessage(messageState, next) == [messageState EXCEPT !.nextMessage = next]

\* The neighbour of perm[i] in its group, looked for from j on away from i.
RECURSIVE neighbour(_, _, _, _, _)
neighbour(b, sp, perm, i, j) ==
  IF j < 1 \/ j > Len(perm) THEN undefinedMessage
  ELSE IF groupOf(b, sp, perm[j]) = groupOf(b, sp, perm[i]) THEN perm[j]
  ELSE neighbour(b, sp, perm, i, IF j < i THEN j - 1 ELSE j + 1)

\* sequenceMessages, for the sorted groups: every message is linked to the
\* message before and the message after it in its group, and the first
\* message of every group is a first message to process.
linked(b, sp, perm) ==
  LET at(m) == indexOf(perm, m)
      prevOf(m) == neighbour(b, sp, perm, at(m), at(m) - 1)
      nextOf(m) == neighbour(b, sp, perm, at(m), at(m) + 1)
      chained == [x \in DOMAIN b.states |->
                    IF x \in Range(perm)
                    THEN setNextMessage(setPrevMessage(b.states[x], prevOf(x)),
                                        nextOf(x))
                    ELSE b.states[x]]
  IN [b EXCEPT !.states = chained,
               !.messages = IF sp.sequencingPerKey THEN @ ELSE perm,
               !.firstMessagesToProcess =
                  SelectSeq(perm, LAMBDA m : prevOf(m) = undefinedMessage)]

\* extractAndSequenceMessages, once every record is extracted: sequenceMessages
\* returns the messages themselves when there are fewer than two or when no
\* sequencing is required.
sequenceMessages ==
  /\ step = "extract"
  /\ pending = <<>>
  /\ fatalItems = {}
  /\ IF Len(batch.messages) < 2 \/ ~streamProcessing.sequencingRequired
     THEN /\ batch' = [batch EXCEPT !.firstMessagesToProcess = batch.messages,
                                   !.sameArray = TRUE]
          /\ step' = "sequenced"
     ELSE IF prepareThrows(batch)
     THEN /\ step' = "failed"
          /\ UNCHANGED batch
     ELSE /\ \E perm \in sortedOrders(batch, streamProcessing) :
               batch' = linked(batch, streamProcessing, perm)
          /\ step' = "sequenced"
  /\ UNCHANGED <<main, streamProcessing, pending, fatalItems>>

\* restoreMessageAndRejectedMessageStates: every message matched to a prior
\* rejected message state, any of the messages, is moved to the rejected
\* messages, in the order of the messages.
restoreMessageAndRejectedMessageStates(S) ==
  /\ step = "sequenced"
  /\ S \subseteq Range(batch.messages)
  /\ batch' = moveAll(batch, SelectIn(batch.messages, S))
  /\ step' = "restored"
  /\ UNCHANGED <<main, streamProcessing, pending, fatalItems>>

\* discardRejectedMessages: the messages that are fully finalised but
\* rejected, any of the messages, are moved to the rejected messages.
discardRejectedMessages(S) ==
  /\ step = "restored"
  /\ S \subseteq Range(batch.messages)
  /\ batch' = moveAll(batch, SelectIn(batch.messages, S))
  /\ step' = "finalising"
  /\ UNCHANGED <<main, streamProcessing, pending, fatalItems>>

NextExtract ==
  \/ \E k \in MessageKeys, sn \in SeqNos : addMessage(k, sn)
  \/ addRejectedMessage
  \/ addUnusableRecord
  \/ addFails("message")
  \/ addFails("record")
  \/ extractFails
  \/ sequenceMessages
  \/ \E S \in SUBSET Range(batch.messages) : restoreMessageAndRejectedMessageStates(S)
  \/ \E S \in SUBSET Range(batch.messages) : discardRejectedMessages(S)

SpecExtract == InitExtract /\ [][NextExtract]_vars

\* Every item a batch may track.
TrackedItems ==
  {message(Records[i]) : i \in DOMAIN Records}
    \cup {record(Records[i]) : i \in DOMAIN Records}

\* The lists of the batch the item is in.
listsOf(item) ==
  {l \in {"messages", "rejectedMessages", "unusableRecords"} :
     item \in Range(batch[l])}

\* C23: at every moment of an invocation no item is in more than one of
\* messages, rejectedMessages and unusableRecords, also while the extraction
\* adds items and while the restore and the discard of rejected messages move
\* messages to the rejected messages.
C23_ListsDisjoint == \A item \in TrackedItems : Cardinality(listsOf(item)) <= 1

C23_Witness ==
  /\ step = "finalising"
  /\ batch.messages = <<message("r3")>>
  /\ batch.rejectedMessages = <<message("r1"), message("r2")>>
  /\ batch.states[message("r1")].key = NoKey
  /\ batch.states[message("r2")].key # NoKey
  /\ batch.states[message("r2")].nextMessage = message("r3")

\* C24 as stated: at every moment of an invocation an item has an entry in
\* states if and only if it is in exactly one of messages, rejectedMessages
\* and unusableRecords.
C24_StateIffInOneList ==
  \A item \in TrackedItems :
    item \in DOMAIN batch.states <=> Cardinality(listsOf(item)) = 1

\* C24, amended: at every moment of an invocation an item that is in one of
\* messages, rejectedMessages and unusableRecords is in exactly one of them
\* and has an entry in states; an item with an entry in states is in exactly
\* one of them unless its addMessage or addUnusableRecord ended in a
\* FatalError, and such an item has an entry in states and is in none.
C24_StateIffInOneListOrFatal ==
  \A item \in TrackedItems :
    /\ item \in DOMAIN batch.states <=>
         (Cardinality(listsOf(item)) = 1 \/ item \in fatalItems)
    /\ Cardinality(listsOf(item)) <= 1
    /\ item \in fatalItems => listsOf(item) = {}

C24_Witness ==
  /\ step = "failed"
  /\ fatalItems = {message("r2")}
  /\ batch.messages = <<message("r1")>>
  /\ batch.unusableRecords = <<record("r3")>>
  /\ DOMAIN batch.states = {message("r1"), message("r2"), record("r3")}

\* The message reached from m by following nextMessage n times.
RECURSIVE following(_, _)
following(m, n) ==
  IF n = 0 \/ m = undefinedMessage THEN m
  ELSE following(batch.states[m].nextMessage, n - 1)

\* The first messages of the chains: the messages without a previous message.
heads == {m \in Range(batch.messages) : batch.states[m].prevMessage = undefinedMessage}

\* C25: after sequencing, for every setting of sequencingRequired and
\* sequencingPerKey and every number of messages, nextMessage and prevMessage
\* are inverse to each other and stay within the messages of the batch, no
\* chain runs in a cycle, every message is on the chain of exactly one first
\* message, and firstMessagesToProcess holds exactly the messages without a
\* previous message, each once.
C25_ChainsWellFormed ==
  step = "sequenced" =>
    LET ms == Range(batch.messages)
        n == Len(batch.messages)
    IN /\ \A m \in ms :
            /\ batch.states[m].prevMessage \in ms \cup {undefinedMessage}
            /\ batch.states[m].nextMessage \in ms \cup {undefinedMessage}
            /\ following(m, n) = undefinedMessage
            /\ Cardinality({h \in heads : \E i \in 0..n : following(h, i) = m}) = 1
       /\ \A m \in ms, x \in ms :
            batch.states[m].nextMessage = x <=> batch.states[x].prevMessage = m
       /\ Range(batch.firstMessagesToProcess) = heads
       /\ Len(batch.firstMessagesToProcess) = Cardinality(heads)

\* A chain of two messages of one key next to the chain of another key.
C25_Witness ==
  /\ step = "sequenced"
  /\ streamProcessing.sequencingRequired
  /\ streamProcessing.sequencingPerKey
  /\ Len(batch.messages) = 3
  /\ batch.states[message("r1")].prevMessage = message("r3")
  /\ batch.states[message("r3")].nextMessage = message("r1")
  /\ batch.firstMessagesToProcess = <<message("r3"), message("r2")>>

\* A callback of the process phase fails the task t into t2 for the first time
\* in this attempt.
failsNow(t, t2) == pc = "process" /\ t.st = "started" /\ t2.st = "failed"

\* C26: a user callback that fails in the process phase fails only its own
\* task, whose attempts are one more than before the invocation: the tasks of
\* the messages on other chains, the process all tasks and the discards of
\* the unusable records keep their states and go on running, the phase ends
\* without a timeout only when every task it started has settled, it ends in
\* the finalise phase, and there the finalise phase can start.
C26_FailureIsLocal ==
  [][/\ \A m \in Msgs :
          failsNow(ones[m], ones'[m]) =>
            /\ ones'[m].att = priorAttempts("one", m) + 1
            /\ \A x \in Msgs \ {m} : ones'[x] = ones[x]
            /\ alls' = alls /\ master' = master /\ discards' = discards
            /\ running' = running \ {one(m)}
            /\ pc' = "process"
     /\ failsNow(master, master') =>
          /\ master'.att = 1
          /\ \A m \in Msgs : alls'[m].st = "failed" =>
                               alls'[m].att = priorAttempts("all", m) + 1
          /\ ones' = ones /\ discards' = discards
          /\ running' = running \ {allTask}
          /\ pc' = "process"
     /\ \A u \in Unusables :
          failsNow(discards[u], discards'[u]) =>
            /\ discards'[u].att = priorAttempts("disc", u) + 1
            /\ \A x \in Items \ {u} : discards'[x] = discards[x]
            /\ ones' = ones /\ alls' = alls /\ master' = master
            /\ running' = running \ {disc(u)}
            /\ pc' = "process"
     /\ pc = "process" => pc' \in {"process", "finalise"}
     /\ (pc = "process" /\ pc' = "finalise" /\ timedOutPhases' = {})
          => running = {}
     /\ pc = "finalise" => ENABLED finaliseBatch]_vars

\* The process one task of m1 has failed while the task of m2, a message of
\* another chain, the process all task and the discard of the unusable record
\* are still running.
C26_Witness ==
  /\ pc = "process"
  /\ firstMessagesToProcess = Msgs
  /\ ones["m1"].st = "failed"
  /\ ones["m1"].att = 1
  /\ running = {one("m2"), allTask, disc("u1")}
  /\ ones["m2"].st = "started"
  /\ master.st = "started"
  /\ discards["u1"].st = "started"

---------------------------------------------------------------------------
\* The comparator of the sequence numbers, on its own.

\* The values of the parts of the compared sequence numbers.
PartValues == {1, 2, 3}

SeqNoParts == {<<k, v>> : k \in Range(PartKeys), v \in PartValues}

\* Sequence numbers of no part, of one part and of two parts, every part
\* sorted as a number.
ComparedSeqNos ==
  {<<>>} \cup {<<p>> : p \in SeqNoParts}
         \cup {<<p, q>> : p \in SeqNoParts, q \in SeqNoParts}

\* The main model and the initiate phase stand still.
quiet == <<env, config, keyValid, inv, table, published, everFailed,
           perInvocation, savers, firstMessagesToProcess, step,
           streamProcessing, pending, batch, fatalItems, eventRecords>>

still == <<quiet, loadedItem, esmCache, taskDefs>>

\* No invocation runs while a function is looked at on its own.
initStill(e) ==
  /\ env = e
  /\ step = "idle"
  /\ streamProcessing = [sequencingRequired |-> TRUE, sequencingPerKey |-> TRUE]
  /\ pending = <<>>
  /\ batch = emptyBatch
  /\ fatalItems = {}
  /\ firstMessagesToProcess = {firstMessageToProcess}
  /\ eventRecords = Records
  /\ config = "ok"
  /\ keyValid = TRUE
  /\ inv = 1
  /\ table = NoItem
  /\ published = {}
  /\ everFailed = {}
  /\ savers = IdleSavers
  /\ pc = "still"
  /\ blankBatch

InitCompare ==
  /\ initStill("compare")
  /\ idleInputs
  /\ timing = NoTiming
  /\ comparison \in [seqNos : ComparedSeqNos \X ComparedSeqNos \X ComparedSeqNos,
                     results : {<<>>}]

\* msgs.sort(comparator) compares the messages of a group two by two.
compareMessages ==
  /\ env = "compare"
  /\ comparison.results = <<>>
  /\ LET a == comparison.seqNos[1]
         b == comparison.seqNos[2]
         c == comparison.seqNos[3]
     IN comparison' = [comparison EXCEPT !.results =
                         [ab |-> compareSameKeyMessages(a, b),
                          ba |-> compareSameKeyMessages(b, a),
                          bc |-> compareSameKeyMessages(b, c),
                          ac |-> compareSameKeyMessages(a, c)]]
  /\ UNCHANGED <<still, timing>>

NextCompare == compareMessages

SpecCompare == InitCompare /\ [][NextCompare]_vars

\* C27: over sequence numbers whose parts are all sorted as numbers, the
\* same-key comparator answers only -1, 0 or +1, compare(a, b) is minus
\* compare(b, a), compare(a, b) <= 0 and compare(b, c) <= 0 imply
\* compare(a, c) <= 0, and of two sequence numbers with different numbers of
\* parts the one with fewer parts sorts after the other.
C27_ComparatorIsTotalOrder ==
  comparison.results # <<>> =>
    LET r == comparison.results
        a == comparison.seqNos[1]
        b == comparison.seqNos[2]
    IN /\ {r.ab, r.ba, r.bc, r.ac} \subseteq {-1, 0, 1}
       /\ r.ab = -r.ba
       /\ (r.ab <= 0 /\ r.bc <= 0) => r.ac <= 0
       /\ Len(a) < Len(b) => r.ab = 1

\* Three sequence numbers of two, one and no part, compared in that order.
C27_Witness ==
  /\ comparison.seqNos = << <<<<"a", 2>>, <<"b", 1>>>>, <<<<"a", 1>>>>, <<>> >>
  /\ comparison.results # <<>>
  /\ comparison.results.ab = -1
  /\ comparison.results.bc = -1
  /\ comparison.results.ac = -1

---------------------------------------------------------------------------
\* The timeout of the finalise phase, on its own.  Percentages are counted in
\* hundredths and times in milliseconds.

\* MIN_FINALISE_TIMEOUT_AT_PERCENTAGE, 0.8, in hundredths.
MIN_FINALISE_TIMEOUT_AT_PERCENTAGE == 80

\* The settings of timeoutAtPercentageOfRemainingTime looked at, from 0.0 to
\* 1.0, the default 0.9 among them.
Percentages == {0, 50, 80, 90, 95, 99, 100}

\* What getRemainingTimeInMillis may answer at the start of the phase.
RemainingTimes == (1..20) \cup {999, 1000, 1001, 1002, 1005, 5000, 6000, 300000}

\* The milliseconds that may pass between the two readings of the remaining
\* time finaliseBatch makes for its timeout.
ElapsedTimes == {0, 1}

\* Math.round of n / d for n >= 0: the nearest integer, a half rounded up.
round(n, d) == (2 * n + d) \div (2 * d)

calculateTimeoutMs(timeoutAtPercentageOfRemainingTime, remainingTimeInMillis) ==
  round(remainingTimeInMillis * timeoutAtPercentageOfRemainingTime, 100)

\* A timeout at the earlier of the last second and the percentage.
finaliseTimeoutMs_earliest(configured, remainingTimeInMillis, elapsed) ==
  LET timeoutAtPercentage == max(configured, MIN_FINALISE_TIMEOUT_AT_PERCENTAGE)
      timeoutAtLastSec == max(remainingTimeInMillis - 1000, 0)
      atPercentage == calculateTimeoutMs(timeoutAtPercentage,
                                         remainingTimeInMillis - elapsed)
  IN IF timeoutAtLastSec <= atPercentage THEN timeoutAtLastSec ELSE atPercentage

\* finaliseBatch: the later of the last second and the greater of the
\* configured and the minimum percentage of the remaining time, which
\* calculateTimeoutMs reads again, some elapsed milliseconds later.
finaliseTimeoutMs(configured, remainingTimeInMillis, elapsed) ==
  LET timeoutAtPercentage == max(configured, MIN_FINALISE_TIMEOUT_AT_PERCENTAGE)
      timeoutAtLastSec == max(remainingTimeInMillis - 1000, 0)
  IN max(timeoutAtLastSec,
         calculateTimeoutMs(timeoutAtPercentage, remainingTimeInMillis - elapsed))

InitTimeout ==
  /\ initStill("timeout")
  /\ idleInputs
  /\ comparison = NoComparison
  /\ timing \in [remainingTimeInMillis : RemainingTimes, elapsed : ElapsedTimes,
                 timeoutAtPercentageOfRemainingTime : Percentages,
                 timeoutMs : {0}, calculated : {FALSE}]

\* finaliseBatch creates its timeout promise.
createFinaliseTimeout ==
  /\ env = "timeout"
  /\ ~timing.calculated
  /\ timing' = [timing EXCEPT
                  !.timeoutMs = finaliseTimeoutMs(
                                  timing.timeoutAtPercentageOfRemainingTime,
                                  timing.remainingTimeInMillis, timing.elapsed),
                  !.calculated = TRUE]
  /\ UNCHANGED <<still, comparison>>

NextTimeout == createFinaliseTimeout

SpecTimeout == InitTimeout /\ [][NextTimeout]_vars

\* C28 as stated: for every configured percentage from 0 to 1 and every
\* remaining time above zero the timeout of the finalise phase is strictly
\* smaller than the remaining time read at the start of the phase.
C28_TimeoutBelowRemaining ==
  timing.calculated => timing.timeoutMs < timing.remainingTimeInMillis

\* C28, amended: the timeout of the finalise phase is never later than the
\* remaining time and never more than a second before it; it is strictly
\* smaller than the remaining time whenever the remaining time less its
\* percentage, the greater of the configured one and 0.8, is a millisecond or
\* more; and for a configured 1.0 it is the remaining time as calculateTimeoutMs
\* reads it, the remaining time itself when no millisecond passed in between.
C28_TimeoutWithinLastSecond ==
  timing.calculated =>
    LET remaining == timing.remainingTimeInMillis
        percentage == max(timing.timeoutAtPercentageOfRemainingTime,
                          MIN_FINALISE_TIMEOUT_AT_PERCENTAGE)
    IN /\ timing.timeoutMs <= remaining
       /\ timing.timeoutMs >= remaining - 1000
       /\ timing.timeoutMs >= 0
       /\ remaining * (100 - percentage) >= 100 => timing.timeoutMs < remaining
       /\ timing.timeoutAtPercentageOfRemainingTime = 100
            => timing.timeoutMs = remaining - timing.elapsed

\* With 1.0 configured and five seconds left the timeout leaves no time.
C28_Witness ==
  /\ timing.calculated
  /\ timing.timeoutAtPercentageOfRemainingTime = 100
  /\ timing.remainingTimeInMillis = 5000
  /\ timing.elapsed = 0
  /\ timing.timeoutMs = 5000

\* An invocation with an event of no records invokes no callback of the user,
\* publishes nothing to a dead-letter stream and requests nothing of the
\* checkpoint table.
noEffect ==
  /\ invoked = {} /\ running = {}
  /\ published = {}
  /\ writes = 0 /\ ~saveIssued /\ ~table.exists
  /\ loadBatchStateTask = NoTask /\ saveBatchStateTask = NoTask

\* C29 as stated: an invocation whose event carries zero records resolves,
\* invokes no user callback, publishes nothing to a dead-letter stream and
\* issues no checkpoint write.
C29_EmptyEventResolves ==
  eventRecords = <<>> =>
    /\ noEffect
    /\ pc = "done" => result = "resolved"

\* C29, amended: an invocation whose event carries zero records invokes no
\* user callback, publishes nothing to a dead-letter stream and issues no
\* checkpoint write; it resolves unless the task definitions are invalid or a
\* discard function is missing, and then it fails with the FatalError of that
\* configuration.
C29_EmptyEventResolvesIfConfigured ==
  eventRecords = <<>> =>
    /\ noEffect
    /\ pc \in {"start", "done"}
    /\ pc = "done" =>
         IF invalidConfiguration
         THEN result = "rejected" /\ error = "Fatal:Configuration"
         ELSE result = "resolved" /\ error = NoError

\* An event of no records was consumed by a consumer without a function to
\* load or to save its checkpoints.
C29_Witness ==
  /\ eventRecords = <<>>
  /\ pc = "done"
  /\ result = "resolved"
  /\ config = "noSaveFunction"
  /\ writes = 0

\* The discards of rejected messages the finalise phase has started and not
\* seen settle.
discarding == {m \in Msgs : disc(m) \in running}

\* C30: within one invocation the finalise phase starts only from the process
\* phase, once everything the process phase started has settled or once its
\* timeout has cancelled the phase and left no task of the batch started; the
\* finalising tasks are frozen only once no discard of a rejected message is
\* still running; and the save of the checkpoint starts only with every
\* finalising task frozen.
C30_StepsInOrder ==
  [][/\ (pc' = "finalise" /\ pc # "finalise") =>
          /\ pc = "process"
          /\ \/ running = {}
             \/ /\ "process" \in timedOutPhases'
                /\ cancelled'
                /\ master'.st # "started"
                /\ \A m \in messages : ones'[m].st # "started" /\ alls'[m].st # "started"
                /\ \A u \in Unusables : discards'[u].st # "started"
     /\ pc' \in {"discarding", "saving"} => pc \in {"finalise", "discarding", "saving"}
     /\ \A m \in Msgs :
          (~discards[m].frz /\ discards'[m].frz) =>
            /\ pc \in {"finalise", "discarding"}
            /\ discarding' = {}
     /\ (pc' = "saving" /\ pc # "saving") =>
          /\ pc \in {"finalise", "discarding"}
          /\ discarding' = {}
          /\ \A m \in undiscardedRejectedMessages' : discards'[m].frz
          /\ master'.st # "none" => master'.frz
     /\ (saveTask \in running' /\ saveTask \notin running) =>
          pc' = "saving" /\ pc # "saving"]_vars

\* The save was issued after the process phase timed out and the discard of
\* the rejected message m1 settled and was frozen.
C30_Witness ==
  /\ pc = "saving"
  /\ saveTask \in running
  /\ "process" \in timedOutPhases
  /\ undiscardedRejectedMessages = {"m1"}
  /\ discards["m1"].frz
  /\ discards["m1"].st = "failed"

\* C31: once the timeout of the process phase has cancelled the process flow,
\* no chain advances: whatever the callbacks still in flight answer, no
\* process one task is started or executed on a further message for the rest
\* of the invocation.
C31_CancelledChainStops ==
  [][cancelled =>
       \A m \in Msgs :
         /\ one(m) \in invoked' => one(m) \in invoked
         /\ one(m) \in running' => one(m) \in running
         /\ ones'[m].st = "started" => ones[m].st = "started"
         /\ ones'[m].att <= ones[m].att]_vars

\* The process phase timed out with the callback of m1 in flight; the callback
\* rejected its task afterwards, and m2, next in the chain, was not started.
C31_Witness ==
  /\ cancelled
  /\ "process" \in timedOutPhases
  /\ firstMessagesToProcess = {"m1"}
  /\ one("m1") \in invoked /\ one("m1") \notin running
  /\ ones["m1"].st = "rejected"
  /\ ones["m1"].att = 0
  /\ ones["m2"].st = "unstarted"
  /\ one("m2") \notin invoked

---------------------------------------------------------------------------
\* The tasks a phase times out: the processing tasks of the process phase,
\* the discards of the rejected messages of the finalise phase.
timedOutIn(p) ==
  IF p = "process"
  THEN \/ master.st = "timedOut"
       \/ \E m \in Msgs : ones[m].st = "timedOut" \/ alls[m].st = "timedOut"
       \/ \E u \in Unusables : discards[u].st = "timedOut"
  ELSE \E m \in Msgs : discards[m].st = "timedOut"

\* The race of a phase, decided one way or the other.
decided(p) ==
  /\ race[p].timeout = "cancelled" =>
       /\ race[p].task.st \in {"completed", "failed"}
       /\ p \notin timedOutPhases
       /\ ~timedOutIn(p)
  /\ race[p].timeout = "triggered" =>
       /\ race[p].task.st = "timedOut"
       /\ p \in timedOutPhases

\* C32: in each phase one side of the race takes effect.  Once the completion
\* has cancelled the timeout, the phase task is completed or failed and no
\* task of the phase is timed out; once the timeout has triggered, the phase
\* task is timed out and stays so, also when the callbacks of the phase
\* settle later.  What has been decided is not decided again in the
\* invocation.
C32_OneSideOfRaceTakesEffect ==
  [][\A p \in Phases :
       /\ decided(p)
       /\ decided(p)'
       /\ (race[p].timeout \in {"cancelled", "triggered"} /\ inv' = inv /\ pc' # "start")
            => race'[p] = race[p]]_vars

\* The process timeout has triggered and every callback that was in flight
\* has settled since; the finalise phase has completed before its timeout.
C32_Witness ==
  /\ race["process"].timeout = "triggered"
  /\ race["process"].task.st = "timedOut"
  /\ invoked # {} /\ processing(running) = {}
  /\ \E m \in Msgs : ones[m].st = "timedOut"
  /\ race["finalise"].timeout = "cancelled"
  /\ race["finalise"].task.st = "completed"

---------------------------------------------------------------------------
\* No callback of the invocation has failed and no timeout has triggered: the
\* load, the process callbacks, the discards and the save.
succeeded ==
  /\ timedOutPhases = {}
  /\ \A p \in Phases : race[p].timeout # "triggered"
  /\ processOutcomes = {}
  /\ finaliseError = NoError
  /\ loadBatchStateTask.st # "failed"
  /\ saveBatchStateTask.st # "failed"
  /\ error = NoError

---------------------------------------------------------------------------
\* The restore of the prior state of the batch, looked at on its own: the
\* messages of two records are extracted and sequenced, the prior states of
\* a loaded item are restored onto them, their tasks are revived and the
\* process one tasks are started.  A prior state is matched to the message of
\* the record it was saved for, by its BFK or by deep equality.

RestoredRecords == <<"r1", "r2">>

RestoredMessages == {message(r) : r \in Range(RestoredRecords)}

\* The process one task-likes of a prior message state and of a prior
\* rejected message state.
PriorOnes == {[st |-> "failed", att |-> 1, frz |-> FALSE],
              [st |-> "completed", att |-> 1, frz |-> FALSE]}

PriorRejectedOnes == {[st |-> "rejected", att |-> 1, frz |-> FALSE]}

\* The items that may be loaded: any of the messages may have a prior message
\* state, a prior rejected message state, both or none.
PriorItems ==
  {[messageStates |-> ms, rejectedMessageStates |-> rs] :
     ms \in UNION {[S -> PriorOnes] : S \in SUBSET RestoredMessages},
     rs \in UNION {[S -> PriorRejectedOnes] : S \in SUBSET RestoredMessages}}

InitRestore ==
  /\ env = "restore"
  /\ comparison = NoComparison
  /\ timing = NoTiming
  /\ esmCache = EmptyCache
  /\ taskDefs = NoTaskDefs
  /\ loadedItem \in PriorItems
  /\ firstMessagesToProcess = {firstMessageToProcess}
  /\ eventRecords = Records
  /\ config = "ok"
  /\ keyValid = TRUE
  /\ inv = 1
  /\ table = NoItem
  /\ published = {}
  /\ everFailed = {}
  /\ savers = IdleSavers
  /\ pc = "extract"
  /\ blankBatch
  /\ step = "extract"
  /\ streamProcessing = [sequencingRequired |-> TRUE, sequencingPerKey |-> TRUE]
  /\ pending = RestoredRecords
  /\ batch = emptyBatch
  /\ fatalItems = {}

\* prevStatesByBfk.get(bfk) or prevStatesByMsg.get(msg): NoTask when no prior
\* state matches the message.
cachePrevStatesByBfkOrMsg(prevStates, m) ==
  IF m \in DOMAIN prevStates THEN prevStates[m] ELSE NoTask

\* The process one tasks of a tracked state, NoTask before any is set.
onesOf(s) == IF "ones" \in DOMAIN s THEN s.ones ELSE NoTask

\* setMessageStateToPrev: the task maps of the prior state replace the
\* state's own.
setMessageStateToPrev(b, m, prevState) ==
  [b EXCEPT !.states[m] =
     [key |-> @.key, seqNos |-> @.seqNos, prevMessage |-> @.prevMessage,
      nextMessage |-> @.nextMessage, ones |-> prevState]]

\* A restore that moves a message only if no prior message state matches it.
restoreMessageState_unlessMessageState(b, it, m) ==
  LET prevMsgState == cachePrevStatesByBfkOrMsg(it.messageStates, m)
      prevRejMsgState == cachePrevStatesByBfkOrMsg(it.rejectedMessageStates, m)
  IN IF prevMsgState # NoTask THEN setMessageStateToPrev(b, m, prevMsgState)
     ELSE IF prevRejMsgState # NoTask
     THEN setMessageStateToPrev(moveMessageToRejected(b, m), m, prevRejMsgState)
     ELSE b

\* restoreMessageAndRejectedMessageStates, for one of the messages: its prior
\* state is its prior message state or else its prior rejected message state;
\* with a prior rejected message state the message is moved to the rejected
\* messages.
restoreMessageState(b, it, m) ==
  LET prevMsgState == cachePrevStatesByBfkOrMsg(it.messageStates, m)
      prevRejMsgState == cachePrevStatesByBfkOrMsg(it.rejectedMessageStates, m)
      prevState == IF prevMsgState # NoTask THEN prevMsgState ELSE prevRejMsgState
      moved == IF prevRejMsgState # NoTask THEN moveMessageToRejected(b, m) ELSE b
  IN IF prevState # NoTask THEN setMessageStateToPrev(moved, m, prevState) ELSE b

\* A restore that prefers the prior message state for a rejected message too.
restoreRejectedMessageState_preferringMessageState(b, it, m) ==
  LET prevMsgState == cachePrevStatesByBfkOrMsg(it.messageStates, m)
      prevRejMsgState == cachePrevStatesByBfkOrMsg(it.rejectedMessageStates, m)
      prevState == IF prevMsgState # NoTask THEN prevMsgState ELSE prevRejMsgState
  IN IF prevState # NoTask THEN setMessageStateToPrev(b, m, prevState) ELSE b

\* restoreMessageAndRejectedMessageStates, for one of the rejected messages:
\* its prior state is its prior rejected message state or else its prior
\* message state.
restoreRejectedMessageState(b, it, m) ==
  LET prevRejMsgState == cachePrevStatesByBfkOrMsg(it.rejectedMessageStates, m)
      prevMsgState == cachePrevStatesByBfkOrMsg(it.messageStates, m)
      prevState == IF prevRejMsgState # NoTask THEN prevRejMsgState ELSE prevMsgState
  IN IF prevState # NoTask THEN setMessageStateToPrev(b, m, prevState) ELSE b

RECURSIVE restoreMessageStates(_, _, _)
restoreMessageStates(b, it, ms) ==
  IF ms = <<>> THEN b
  ELSE restoreMessageStates(restoreMessageState(b, it, Head(ms)), it, Tail(ms))

RECURSIVE restoreRejectedMessageStates(_, _, _)
restoreRejectedMessageStates(b, it, ms) ==
  IF ms = <<>> THEN b
  ELSE restoreRejectedMessageStates(restoreRejectedMessageState(b, it, Head(ms)),
                                    it, Tail(ms))

\* restoreMessageAndRejectedMessageStates: first over a copy of the messages,
\* then over a copy of the rejected messages as the first pass has left them.
restoredStates(b, it) ==
  LET first == restoreMessageStates(b, it, b.messages)
  IN restoreRejectedMessageStates(first, it, first.rejectedMessages)

\* loadBatchState restores the states of the loaded item.
restoreStates ==
  /\ env = "restore"
  /\ step = "sequenced"
  /\ batch' = restoredStates(batch, loadedItem)
  /\ step' = "restored"
  /\ UNCHANGED <<main, streamProcessing, pending, fatalItems>>

\* batch.reviveTasks: the process one tasks of a message are revived or
\* created, those of a rejected message are only revived.
reviveTasks ==
  /\ env = "restore"
  /\ step = "restored"
  /\ batch' = [batch EXCEPT !.states =
       [x \in DOMAIN @ |->
          [key |-> @[x].key, seqNos |-> @[x].seqNos,
           prevMessage |-> @[x].prevMessage, nextMessage |-> @[x].nextMessage,
           ones |-> revive(onesOf(@[x]), x \in Range(batch.messages))]]]
  /\ step' = "revived"
  /\ UNCHANGED <<main, streamProcessing, pending, fatalItems>>

\* executeProcessOneTasks: the first message from m on along its chain that
\* has an incomplete process one task.
RECURSIVE firstIncomplete(_, _)
firstIncomplete(b, m) ==
  IF m = undefinedMessage THEN undefinedMessage
  ELSE IF ~isFullyFinalised(b.states[m].ones) THEN m
  ELSE firstIncomplete(b, b.states[m].nextMessage)

\* executeAllProcessOneTasks: nothing without a message; else the chains of
\* the first messages to process are started, or of the messages without a
\* previous message when there are no first messages to process.
executeAllProcessOneTasks ==
  /\ env = "restore"
  /\ step = "revived"
  /\ LET independent ==
           IF batch.firstMessagesToProcess # <<>>
           THEN Range(batch.firstMessagesToProcess)
           ELSE {m \in Range(batch.messages) :
                   batch.states[m].prevMessage = undefinedMessage}
         targets == IF batch.messages = <<>> THEN {}
                    ELSE {firstIncomplete(batch, m) : m \in independent}
                           \ {undefinedMessage}
     IN batch' = [batch EXCEPT !.states =
          [x \in DOMAIN @ |->
             IF x \in targets THEN [@[x] EXCEPT !.ones = execute(@)] ELSE @[x]]]
  /\ step' = "processing"
  /\ UNCHANGED <<main, streamProcessing, pending, fatalItems>>

NextRestore ==
  \/ \E k \in MessageKeys, sn \in SeqNos : addMessage(k, sn)
  \/ sequenceMessages
  \/ restoreStates
  \/ reviveTasks
  \/ executeAllProcessOneTasks

SpecRestore == InitRestore /\ [][NextRestore]_vars

\* The messages that the restore has moved to the rejected messages.
movedByRestore == Range(batch'.rejectedMessages) \ Range(batch.rejectedMessages)

\* C34 as stated: during restoration a message is moved from the messages to
\* the rejected messages only when no prior message state matches it and a
\* prior rejected message state does; a message that matches a prior message
\* state stays among the messages.
C34_MovedOnlyWithoutMessageState ==
  [][(step = "sequenced" /\ step' = "restored") =>
       \A m \in Range(batch.messages) :
         /\ m \in movedByRestore =>
              /\ m \notin DOMAIN loadedItem.messageStates
              /\ m \in DOMAIN loadedItem.rejectedMessageStates
         /\ m \in DOMAIN loadedItem.messageStates => m \in Range(batch'.messages)]_vars

\* C34: during restoration a message is moved from the messages to the
\* rejected messages exactly when a prior rejected message state matches it,
\* whether or not a prior message state matches it too; a message that
\* matches only a prior message state stays among the messages.
C34_MovedIffRejectedState ==
  [][(step = "sequenced" /\ step' = "restored") =>
       \A m \in Range(batch.messages) :
         /\ m \in movedByRestore <=> m \in DOMAIN loadedItem.rejectedMessageStates
         /\ m \in movedByRestore <=> m \notin Range(batch'.messages)
         /\ (/\ m \in DOMAIN loadedItem.messageStates
             /\ m \notin DOMAIN loadedItem.rejectedMessageStates)
              => m \in Range(batch'.messages)]_vars

\* The restore has moved a message matched by a prior message state and by a
\* prior rejected message state, and has left a message matched by a prior
\* message state only.
C34_Witness ==
  /\ env = "restore" /\ step = "restored"
  /\ \E m \in Range(batch.rejectedMessages), n \in Range(batch.messages) :
       /\ m \in DOMAIN loadedItem.messageStates
       /\ m \in DOMAIN loadedItem.rejectedMessageStates
       /\ n \in DOMAIN loadedItem.messageStates
       /\ n \notin DOMAIN loadedItem.rejectedMessageStates

\* C36: a message that the restore has moved to the rejected messages, after
\* the chains were built, does not block its chain.  When the process one
\* tasks are started, none of the moved message's own is executed, and those
\* of its next message are started if that message is still among the
\* messages and has an incomplete process one task.
C36_MovedMessageDoesNotBlockChain ==
  [][(env = "restore" /\ step = "revived" /\ step' = "processing") =>
       \A m \in Range(batch.rejectedMessages) :
         /\ batch'.states[m].ones = batch.states[m].ones
         /\ batch'.states[m].ones.st # "started"
         /\ LET n == batch.states[m].nextMessage IN
              (/\ n \in Range(batch.messages)
               /\ ~isFullyFinalised(batch.states[n].ones))
                => /\ batch'.states[n].ones.st = "started"
                   /\ batch'.states[n].ones.att = batch.states[n].ones.att + 1]_vars

\* The first message of a chain was moved by the restore, matched by a prior
\* message state with a failed task and by a prior rejected message state;
\* the process one task of its next message has been started.
C36_Witness ==
  /\ env = "restore" /\ step = "processing"
  /\ \E m \in Range(batch.rejectedMessages) :
       /\ m \in DOMAIN loadedItem.messageStates
       /\ loadedItem.messageStates[m].st = "failed"
       /\ batch.states[m].ones.st = "rejected"
       /\ batch.states[m].prevMessage = undefinedMessage
       /\ batch.states[m].nextMessage \in Range(batch.messages)
       /\ batch.states[batch.states[m].nextMessage].ones.st = "started"

---------------------------------------------------------------------------
\* The initiate phase of the invocation has failed: at the load, or at the
\* extraction, the revival of the tasks or the pre-process hook.
initiateFailed ==
  /\ pc \in {"fatal", "done"}
  /\ \/ error \in {initiateError(cause) : cause \in InitiateFailures}
     \/ loadBatchStateTask.st = "failed"
     \/ /\ config = "noLoadFunction" /\ loadRequired
        /\ ~invalidConfiguration /\ eventRecords # <<>>

\* C35: when the initiate phase fails, the invocation rejects, by way of
\* handleFatalError when the error is fatal, and has executed no process one,
\* process all or discard callback, started no process or finalise phase and
\* issued no save of the checkpoint.
C35_InitiateFailureRejectsUntouched ==
  initiateFailed =>
    /\ invoked = {} /\ running = {}
    /\ \A m \in Msgs : ones[m].st \notin {"started", "failed"} /\ alls[m].st # "started"
    /\ \A i \in Items : discards[i].st # "started"
    /\ master.st \in {"none", "unstarted"}
    /\ race = NoRace
    /\ ~saveIssued /\ writes = 0 /\ saveBatchStateTask = NoTask
    /\ pendingItem = NoItem
    /\ pc = "done" => result = "rejected"
    /\ pc = "fatal" => isFatal(error) /\ result = "none"

\* The pre-process hook has failed after a load that found no prior state,
\* and the invocation has rejected.
C35_Witness ==
  /\ pc = "done" /\ result = "rejected"
  /\ error = "PreProcessError"
  /\ loadBatchStateTask.st = "completed"
  /\ messages = Msgs /\ invoked = {}

---------------------------------------------------------------------------
\* The pre-finalise and the post-finalise hook.

\* The race of a phase has been decided, by completion or by timeout.
raceOver(p) == race[p].timeout \in {"cancelled", "triggered"}

\* C37: the hooks never change the outcome of a phase.  The hook of a phase
\* has run once the race of the phase is decided, whichever side won; the
\* process phase hands on the outcomes of its race (the TimeoutError alone
\* after a timeout, never the error of the hook) and the finalise phase ends
\* with the error of its race (the TimeoutError after a timeout, else what
\* finaliseBatch selects, none for a finalised batch), whether the hook
\* resolved or rejected.
C37_HooksNeverChangeOutcome ==
  /\ \A p \in Phases : raceOver(p) <=> race[p].hook # "none"
  /\ preFinaliseBatch("rejected") \notin processOutcomes
  /\ race.process.timeout = "triggered" => processOutcomes = {"TimeoutError"}
  /\ race.finalise.hook # "none" =>
       error = IF race.finalise.timeout = "triggered" THEN "TimeoutError"
               ELSE finaliseBatchError(
                      finaliseError,
                      batchIsFullyFinalised(messages, ones, alls, discards, master),
                      processOutcomes)

\* Both hooks failed and the invocation resolved all the same.
C37_Witness ==
  /\ pc = "done"
  /\ race.process.hook = "rejected"
  /\ race.finalise.hook = "rejected"
  /\ result = "resolved"
  /\ error = NoError

---------------------------------------------------------------------------
\* The cache of event source mappings, looked at on its own: attempts to
\* disable a mapping with and without the cache, lookups that find a mapping,
\* find none or fail, and clearCache.

InitCache ==
  /\ initStill("cache")
  /\ comparison = NoComparison
  /\ timing = NoTiming
  /\ loadedItem = NoPriorItem
  /\ taskDefs = NoTaskDefs
  /\ esmCache = EmptyCache

\* getEventSourceMapping: a lookup of its own, in flight.
getEventSourceMapping == [st |-> "looking", value |-> "none", lookedUp |-> TRUE]

\* A cached promise handed on as it settled, a failure included.
catchCached_reusingFailure(c) ==
  [st |-> c.st, value |-> c.value, lookedUp |-> FALSE]

\* esmPromiseCached.catch(err => getEventSourceMapping(...)): a cached
\* promise that resolved is handed on, one that rejected is replaced by a
\* fresh lookup.
catchCached(c) ==
  IF c.st = "rejected" THEN getEventSourceMapping
  ELSE [st |-> c.st, value |-> c.value, lookedUp |-> FALSE]

\* getEventSourceMappingViaCache: the promise of an attempt that found the
\* promise numbered cached in the cache (0: none).
getEventSourceMappingViaCache(cached) ==
  IF cached = 0 THEN getEventSourceMapping
  ELSE [st |-> "waiting", value |-> "none", lookedUp |-> FALSE]

\* disableEventSourceMapping: look the mapping up, by way of the cache unless
\* avoidCache is set; the new promise replaces the cached one.
disableEventSourceMapping(fs, avoidCache) ==
  /\ env = "cache"
  /\ Len(esmCache.promises) < MaxDisables
  /\ LET cached == IF avoidCache THEN 0
                   ELSE esmCache.eventSourceMappingPromisesByKey[fs]
         esmPromise == IF avoidCache THEN getEventSourceMapping
                       ELSE getEventSourceMappingViaCache(cached)
         n == Len(esmCache.promises) + 1
     IN esmCache' =
          [esmCache EXCEPT
             !.promises = Append(@, [functionAndStream |-> fs,
                                     viaCache |-> ~avoidCache,
                                     cached |-> cached,
                                     st |-> esmPromise.st,
                                     value |-> esmPromise.value,
                                     lookedUp |-> esmPromise.lookedUp,
                                     disabled |-> "pending"]),
             !.eventSourceMappingKeysByFunctionAndStream =
                IF avoidCache THEN @ ELSE @ \cup {fs},
             !.eventSourceMappingPromisesByKey =
                IF avoidCache THEN @ ELSE [@ EXCEPT ![fs] = n],
             !.lookups = IF esmPromise.lookedUp THEN @ + 1 ELSE @,
             !.calls = Append(@, n)]
  /\ UNCHANGED <<quiet, comparison, timing, loadedItem, taskDefs>>

\* What listEventSourceMappings can come to: a mapping of the stream, no
\* mapping of the stream, or an error.
LookupOutcomes == {"mapping", "undefined", "fail"}

\* What the attempt resolves with once its promise has settled with the value
\* given: false without a mapping; with one, true or false as
\* lambdaUtils.disableEventSourceMapping resolves or rejects; nothing yet
\* while a lookup is in flight.
disableOutcomes(st, value) ==
  IF st = "looking" THEN {"pending"}
  ELSE IF st = "resolved" /\ value = "mapping" THEN {"true", "false"}
  ELSE {"false"}

\* listEventSourceMappings settles: the mapping of the stream or undefined,
\* or its error thrown again; the attempt resolves.
lookupSettles(i, o) ==
  /\ env = "cache"
  /\ i \in DOMAIN esmCache.promises
  /\ esmCache.promises[i].st = "looking"
  /\ \E d \in disableOutcomes("resolved", o) :
       esmCache' =
         [esmCache EXCEPT
            !.promises[i].st = IF o = "fail" THEN "rejected" ELSE "resolved",
            !.promises[i].value = IF o = "fail" THEN "none" ELSE o,
            !.promises[i].disabled = d]
  /\ UNCHANGED <<quiet, comparison, timing, loadedItem, taskDefs>>

\* The cached promise an attempt waits for has settled: the attempt resolves
\* or goes on to a lookup of its own.
cachedSettles(i) ==
  /\ env = "cache"
  /\ i \in DOMAIN esmCache.promises
  /\ esmCache.promises[i].st = "waiting"
  /\ LET c == esmCache.promises[esmCache.promises[i].cached]
         esmPromise == catchCached(c)
     IN /\ c.st \in {"resolved", "rejected"}
        /\ \E d \in disableOutcomes(esmPromise.st, esmPromise.value) :
             esmCache' =
               [esmCache EXCEPT
                  !.promises[i].st = esmPromise.st,
                  !.promises[i].value = esmPromise.value,
                  !.promises[i].lookedUp = esmPromise.lookedUp,
                  !.promises[i].disabled = d,
                  !.lookups = IF esmPromise.lookedUp THEN @ + 1 ELSE @]
  /\ UNCHANGED <<quiet, comparison, timing, loadedItem, taskDefs>>

\* A clearCache that counts the attempts made.
deletedCount_ofAttempts(c) == Len(c.calls)

\* clearCache counts the keys whose promise it deleted.
deletedCount(c) ==
  Cardinality({fs \in c.eventSourceMappingKeysByFunctionAndStream :
                 c.eventSourceMappingPromisesByKey[fs] # 0})

\* clearCache: delete every key and its promise.
clearCache ==
  /\ env = "cache"
  /\ esmCache' =
       [esmCache EXCEPT
          !.eventSourceMappingKeysByFunctionAndStream = {},
          !.eventSourceMappingPromisesByKey = [fs \in FunctionsAndStreams |-> 0],
          !.calls = <<>>,
          !.cleared = [calls |-> [k \in DOMAIN esmCache.calls |->
                                    esmCache.promises[esmCache.calls[k]].viaCache],
                       deletedCount |-> deletedCount(esmCache)]]
  /\ UNCHANGED <<quiet, comparison, timing, loadedItem, taskDefs>>

NextCache ==
  \/ \E fs \in FunctionsAndStreams, avoidCache \in BOOLEAN :
       disableEventSourceMapping(fs, avoidCache)
  \/ \E i \in 1..MaxDisables, o \in LookupOutcomes : lookupSettles(i, o)
  \/ \E i \in 1..MaxDisables : cachedSettles(i)
  \/ clearCache

SpecCache == InitCache /\ [][NextCache]_vars

\* The attempts made by way of the cache for a pair since the last clearCache.
viaCacheSinceCleared(fs) ==
  {k \in DOMAIN esmCache.calls :
     /\ esmCache.promises[esmCache.calls[k]].viaCache
     /\ esmCache.promises[esmCache.calls[k]].functionAndStream = fs}

\* C38: with the cache enabled, only successful lookups are served from it.
\* An attempt finds the promise of the attempt before it for the same
\* function and stream; when that promise has rejected, the attempt makes a
\* lookup of its own instead of failing with the cached error, and when it
\* has resolved, the attempt resolves with the same mapping without a lookup
\* of its own.  An attempt fails to find its mapping only when its own
\* lookup failed.
C38_CacheServesOnlySuccesses ==
  /\ \A i \in DOMAIN esmCache.promises :
       LET p == esmCache.promises[i] IN
         /\ p.st = "rejected" => p.lookedUp
         /\ p.cached # 0 =>
              LET c == esmCache.promises[p.cached] IN
                /\ p.viaCache /\ c.viaCache
                /\ c.functionAndStream = p.functionAndStream
                /\ (c.st = "rejected" /\ p.st # "waiting") => p.lookedUp
                /\ (c.st = "resolved" /\ p.st # "waiting") =>
                     /\ ~p.lookedUp
                     /\ p.st = "resolved"
                     /\ p.value = c.value
  /\ \A fs \in FunctionsAndStreams : \A k \in viaCacheSinceCleared(fs) :
       esmCache.promises[esmCache.calls[k]].cached =
         IF \E j \in viaCacheSinceCleared(fs) : j < k
         THEN esmCache.calls[CHOOSE j \in viaCacheSinceCleared(fs) :
                /\ j < k
                /\ \A x \in viaCacheSinceCleared(fs) : x < k => x <= j]
         ELSE 0
  /\ esmCache.lookups =
       Cardinality({i \in DOMAIN esmCache.promises : esmCache.promises[i].lookedUp})

\* A lookup failed, and the next attempt for the pair looked the mapping up
\* afresh, found it and disabled it.
C38_Witness ==
  /\ Len(esmCache.promises) = 2
  /\ esmCache.promises[1].st = "rejected"
  /\ esmCache.promises[1].disabled = "false"
  /\ esmCache.promises[2].cached = 1
  /\ esmCache.promises[2].lookedUp
  /\ esmCache.promises[2].value = "mapping"
  /\ esmCache.promises[2].disabled = "true"
  /\ esmCache.lookups = 2

\* The promises the cache holds.
cachedPromises ==
  {esmCache.eventSourceMappingPromisesByKey[fs] :
     fs \in esmCache.eventSourceMappingKeysByFunctionAndStream} \ {0}

\* C39: after one attempt on an empty cache, the cache holds the one promise
\* of the attempt under its function and stream when the attempt went by way
\* of the cache, whatever its lookup came to, and holds nothing when the
\* attempt avoided the cache; a clearCache that follows the one attempt
\* returns 1 in the first case and 0 in the second, and leaves the cache
\* empty.
C39_OneAttemptCachesOnePromise ==
  /\ Len(esmCache.calls) = 1 =>
       LET p == esmCache.promises[esmCache.calls[1]] IN
         IF p.viaCache
         THEN /\ esmCache.eventSourceMappingKeysByFunctionAndStream =
                   {p.functionAndStream}
              /\ cachedPromises = {esmCache.calls[1]}
         ELSE /\ esmCache.eventSourceMappingKeysByFunctionAndStream = {}
              /\ cachedPromises = {}
  /\ Len(esmCache.cleared.calls) = 1 =>
       esmCache.cleared.deletedCount = IF esmCache.cleared.calls[1] THEN 1 ELSE 0
  /\ esmCache.calls = <<>> =>
       /\ esmCache.eventSourceMappingKeysByFunctionAndStream = {}
       /\ cachedPromises = {}

\* One attempt by way of the cache found no mapping, and the clearCache
\* after it returned 1.
C39_Witness ==
  /\ esmCache.cleared = [calls |-> <<TRUE>>, deletedCount |-> 1]
  /\ Len(esmCache.promises) = 1
  /\ esmCache.promises[1].value = "undefined"
  /\ esmCache.promises[1].disabled = "false"
  /\ esmCache.calls = <<>>

---------------------------------------------------------------------------
\* The validation of the task definitions, looked at on its own: lists of
\* definitions handed to processStreamEvent, which validates them before it
\* does anything else.

\* What a list of task definitions can hold: two top-level definitions, a
\* copy of the first with the same name, a sub-task definition without an
\* execute function, a sub-task definition with one (as the phase tasks'
\* sub-tasks are defined), and an object that is not a TaskDef.
TaskDefInstances ==
  {"taskDef1", "taskDef1Copy", "taskDef2", "subTaskDef1",
   "executableSubTaskDef", "notATaskDef"}

\* The longest list of task definitions drawn.
MaxTaskDefs == 2

\* instanceof TaskDef
isTaskDef(t) == t # "notATaskDef"

\* The name of a definition.
nameOf(t) ==
  CASE t \in {"taskDef1", "taskDef1Copy"} -> "Task1"
    [] t = "taskDef2" -> "Task2"
    [] t = "subTaskDef1" -> "SubTask1"
    [] t = "executableSubTaskDef" -> "SubTask2"
    [] OTHER -> "TaskDef2"

\* A definition with a parent is a sub-task definition.
isSubTaskDef(t) == t \in {"subTaskDef1", "executableSubTaskDef"}

\* t.executable && typeof t.execute === 'function': a TaskDef is executable
\* when it was defined with an execute function.
isExecutable(t) == t \in {"taskDef1", "taskDef1Copy", "taskDef2", "executableSubTaskDef"}

\* Arrays.isDistinct
isDistinct(seq) == \A i, j \in DOMAIN seq : i # j => seq[i] # seq[j]

\* An argument of processStreamEvent: undefined or a list of definitions.
TaskDefLists ==
  {[defined |-> FALSE, defs |-> <<>>]} \cup
  {[defined |-> TRUE, defs |-> l] :
     l \in UNION {[1..n -> TaskDefInstances] : n \in 0..MaxTaskDefs}}

InitValidate ==
  /\ env = "validate"
  /\ step = "idle"
  /\ streamProcessing = [sequencingRequired |-> TRUE, sequencingPerKey |-> TRUE]
  /\ pending = <<>>
  /\ batch = emptyBatch
  /\ fatalItems = {}
  /\ comparison = NoComparison
  /\ timing = NoTiming
  /\ loadedItem = NoPriorItem
  /\ esmCache = EmptyCache
  /\ firstMessagesToProcess = {firstMessageToProcess}
  /\ eventRecords = Records
  /\ config = "ok"
  /\ keyValid = TRUE
  /\ inv = 1
  /\ table = NoItem
  /\ published = {}
  /\ everFailed = {}
  /\ savers = IdleSavers
  /\ newBatch
  /\ taskDefs \in [processOneTaskDefs : TaskDefLists,
                   processAllTaskDefs : TaskDefLists,
                   validated : {"no"}]

\* validateTaskDefs: a list that is defined holds executable TaskDef
\* instances only, and no two of the same name.
validateTaskDefs(l) ==
  IF ~l.defined THEN NoError
  ELSE IF \E i \in DOMAIN l.defs :
            ~isTaskDef(l.defs[i]) \/ ~isExecutable(l.defs[i])
       THEN "Fatal:Configuration"
  ELSE IF ~isDistinct([i \in DOMAIN l.defs |-> nameOf(l.defs[i])])
       THEN "Fatal:Configuration"
  ELSE NoError

\* validateTaskDefinitions: each list is validated, then there must be a
\* definition in one of the lists at least, and no definition in both.
validateTaskDefinitions(processOneTaskDefs, processAllTaskDefs) ==
  IF validateTaskDefs(processOneTaskDefs) # NoError
  THEN validateTaskDefs(processOneTaskDefs)
  ELSE IF validateTaskDefs(processAllTaskDefs) # NoError
  THEN validateTaskDefs(processAllTaskDefs)
  ELSE IF Len(processOneTaskDefs.defs) <= 0 /\ Len(processAllTaskDefs.defs) <= 0
  THEN "Fatal:Configuration"
  ELSE IF ~isDistinct(processOneTaskDefs.defs \o processAllTaskDefs.defs)
  THEN "Fatal:Configuration"
  ELSE NoError

\* processStreamEvent validates the task definitions first and rejects with
\* the error thrown, before a batch exists; with valid definitions it goes on.
processStreamEvent ==
  /\ env = "validate"
  /\ pc = "start"
  /\ taskDefs.validated = "no"
  /\ LET err == validateTaskDefinitions(taskDefs.processOneTaskDefs,
                                        taskDefs.processAllTaskDefs)
     IN /\ taskDefs' = [taskDefs EXCEPT
                          !.validated = IF err = NoError THEN "valid" ELSE "invalid"]
        /\ error' = err
        /\ result' = IF err = NoError THEN result ELSE "rejected"
        /\ pc' = IF err = NoError THEN "validated" ELSE "done"
  /\ UNCHANGED <<processOutcomes, finaliseError, disableAttempts, disableOutcome,
                 loadBatchStateTask, saveBatchStateTask, writes, lateSettled>>
  /\ UNCHANGED <<step, streamProcessing, pending, batch, fatalItems,
                 firstMessagesToProcess, comparison, timing, eventRecords,
                 loadedItem, esmCache>>
  /\ UNCHANGED <<race, env, config, keyValid, inv, table, published, everFailed,
                 savers, messages, rejectedMessages, ones, alls, master, discards,
                 undiscardedRejectedMessages, running, invoked, incompleteMessages,
                 chainAt, cancelled, previouslySaved, prior, saveIssued,
                 finaliseFailure, timedOutPhases, pendingItem>>

NextValidate == processStreamEvent

SpecValidate == InitValidate /\ [][NextValidate]_vars

\* The definitions of both lists.
allTaskDefs == taskDefs.processOneTaskDefs.defs \o taskDefs.processAllTaskDefs.defs

\* No definition in a list twice by name, and no instance in both lists.
namesAndInstancesDistinct ==
  /\ \A l \in {taskDefs.processOneTaskDefs.defs, taskDefs.processAllTaskDefs.defs} :
       Cardinality({nameOf(l[i]) : i \in DOMAIN l}) = Len(l)
  /\ {taskDefs.processOneTaskDefs.defs[i] : i \in DOMAIN taskDefs.processOneTaskDefs.defs}
       \cap
     {taskDefs.processAllTaskDefs.defs[i] : i \in DOMAIN taskDefs.processAllTaskDefs.defs}
       = {}

\* processStreamEvent has rejected with a FatalError and nothing else has
\* happened: no batch, no phase, no attempt to disable the event source.
rejectedBeforeBatch ==
  /\ pc = "done"
  /\ result = "rejected"
  /\ isFatal(error)
  /\ messages = {}
  /\ rejectedMessages = {}
  /\ race = NoRace
  /\ loadBatchStateTask = NoTask
  /\ running = {}
  /\ disableAttempts = 0

\* C40: the validation of the task definitions fails with a FatalError, and
\* processStreamEvent rejects before it creates a batch or runs a phase,
\* unless there is a definition in one of the lists at least, every entry is
\* an executable top-level TaskDef, no list has a task name twice and no
\* instance is in both lists; distinct instances of one name in different
\* lists are accepted.
C40_ValidationFailsUnlessTopLevel ==
  taskDefs.validated # "no" =>
    /\ taskDefs.validated = "valid" <=>
         /\ Len(allTaskDefs) > 0
         /\ \A i \in DOMAIN allTaskDefs :
              /\ isTaskDef(allTaskDefs[i])
              /\ isExecutable(allTaskDefs[i])
              /\ ~isSubTaskDef(allTaskDefs[i])
         /\ namesAndInstancesDistinct
    /\ taskDefs.validated = "invalid" <=> rejectedBeforeBatch

\* What the validation does decide: the same with every entry an executable
\* TaskDef, a sub-task definition with an execute function included.
C40_ValidationFailsUnlessExecutable ==
  taskDefs.validated # "no" =>
    /\ taskDefs.validated = "valid" <=>
         /\ Len(allTaskDefs) > 0
         /\ \A i \in DOMAIN allTaskDefs :
              isTaskDef(allTaskDefs[i]) /\ isExecutable(allTaskDefs[i])
         /\ namesAndInstancesDistinct
    /\ taskDefs.validated = "invalid" <=> rejectedBeforeBatch

\* A sub-task definition with an execute function passed the validation.
C40_SubTaskDefAccepted ==
  /\ taskDefs.validated = "valid"
  /\ \E i \in DOMAIN allTaskDefs : isSubTaskDef(allTaskDefs[i])

====
